---- MODULE Spec2Model ----
(***************************************************************************)
(* Verification model of the echo-analyze dashboard front end.             *)
(*                                                                         *)
(* Part 1: the value projection of PortfolioBenchmarkChart                 *)
(* (components/dashboard/visualizations/PortfolioBenchmarkChart.tsx, kept  *)
(* in src/unnamed/part_018).                                               *)
(*                                                                         *)
(* Representation of JavaScript values                                     *)
(*  - A time value (what Date.getTime() returns) is the record             *)
(*    [day, ms]: whole days since 1970-01-01 and milliseconds within the   *)
(*    day (ECMAScript's Day(t) and TimeWithinDay(t)).  Local time is taken *)
(*    to be UTC without daylight saving.                                   *)
(*  - A number is the record [k, v]; k is "fin", "inf", "ninf", "nan" or   *)
(*    "null" (the JSON null of an optional field), v the integer value of  *)
(*    a finite number and 0 otherwise.                                     *)
(*  - A projected amount initialValue * (1 + monthlyRate)^monthsElapsed is *)
(*    kept in the logarithmic domain: [k, lg] stands for                   *)
(*    initialValue * exp(lg / (100 * 36528)), where lg is the product of   *)
(*    ln(1 + annualRate/100) in hundredths and the elapsed time in         *)
(*    hundredths of a day (12 months of 30.44 days are 365.28 days).       *)
(*    Equal lg means equal amounts, a larger lg a larger amount, lg = 0    *)
(*    the initial value itself.                                            *)
(***************************************************************************)
EXTENDS Integers, Sequences, FiniteSets, TLC

\* ------------------------------------------------------------------------
\* Bounds of the model
\* ------------------------------------------------------------------------
MaxClockSteps == 1

\* ------------------------------------------------------------------------
\* Program constants
\* ------------------------------------------------------------------------
ZOOM_THROTTLE_MS == 300
MsPerDay == 86400000
MaxPointsDaily == 365
MaxPointsMonthly == 120
MaxPointsYearly == 50
FallbackPoints == 2

ZoomLevels == {"daily", "monthly", "yearly"}

\* ------------------------------------------------------------------------
\* Time values and the calendar of Date
\* ------------------------------------------------------------------------
Time(d, m) == [day |-> d, ms |-> m]

TimeLE(a, b) == a.day < b.day \/ (a.day = b.day /\ a.ms <= b.ms)

TimeLT(a, b) == a.day < b.day \/ (a.day = b.day /\ a.ms < b.ms)

\* a - b as a normalised [day, ms] difference, 0 <= ms < MsPerDay
TimeDiff(a, b) ==
  IF a.ms >= b.ms THEN [day |-> a.day - b.day, ms |-> a.ms - b.ms]
  ELSE [day |-> a.day - b.day - 1, ms |-> a.ms - b.ms + MsPerDay]

TimePlusMs(a, n) ==
  LET t == a.ms + n
  IN  [day |-> a.day + (t \div MsPerDay), ms |-> t % MsPerDay]

\* MakeDay(year, month, date) of ECMAScript: month (0-based) and date may lie
\* outside their ranges and carry over, as in setMonth(12) or Feb 31.
MakeDay(y, m, d) ==
  LET ym  == y + (m \div 12)
      mn  == (m % 12) + 1
      yy  == IF mn <= 2 THEN ym - 1 ELSE ym
      era == yy \div 400
      yoe == yy - era * 400
      mp  == IF mn > 2 THEN mn - 3 ELSE mn + 9
      doy == (153 * mp + 2) \div 5
      doe == yoe * 365 + (yoe \div 4) - (yoe \div 100) + doy
  IN  era * 146097 + doe - 719468 + (d - 1)

\* YearFromTime, MonthFromTime (0-based) and DateFromTime of ECMAScript, by
\* the inverse of MakeDay: era is the 400-year cycle of the day, doe the day
\* of the era, yoe the year of the era, doy the day of the year counted from
\* March 1st and mp the month counted from March.
CivilMonth(mp) == IF mp < 10 THEN mp + 2 ELSE mp - 10

CivilYear(era, yoe, mp) == yoe + era * 400 + (IF mp < 10 THEN 0 ELSE 1)

CivilOfDoy(era, yoe, doy, mp) ==
  [year |-> CivilYear(era, yoe, mp), month |-> CivilMonth(mp),
   date |-> doy - ((153 * mp + 2) \div 5) + 1]

CivilOfYoe(era, doe, yoe) ==
  CivilOfDoy(era, yoe, doe - (365 * yoe + (yoe \div 4) - (yoe \div 100)),
             (5 * (doe - (365 * yoe + (yoe \div 4) - (yoe \div 100))) + 2) \div 153)

CivilOfDoe(era, doe) ==
  CivilOfYoe(era, doe,
             (doe - (doe \div 1460) + (doe \div 36524) - (doe \div 146096)) \div 365)

Civil(day) ==
  CivilOfDoe((day + 719468) \div 146097, (day + 719468) % 146097)

getFullYear(t) == Civil(t.day).year
getMonth(t) == Civil(t.day).month
getDate(t) == Civil(t.day).date

setDate(t, d) == LET c == Civil(t.day) IN Time(MakeDay(c.year, c.month, d), t.ms)
setMonth(t, m) == LET c == Civil(t.day) IN Time(MakeDay(c.year, m, c.date), t.ms)
setFullYear(t, y) == LET c == Civil(t.day) IN Time(MakeDay(y, c.month, c.date), t.ms)

\* The label of a point.  toLocaleDateString("en-US", ...) prints month, day
\* and year for daily, month and year for monthly, and the year for yearly:
\* the label is the tuple of the fields it prints.
formatDateForZoom(date, zoom) ==
  LET c == Civil(date.day)
  IN  IF zoom = "daily" THEN <<c.year, c.month, c.date>>
      ELSE IF zoom = "monthly" THEN <<c.year, c.month>>
      ELSE <<c.year>>

incrementDate(date, interval) ==
  IF interval = "daily" THEN setDate(date, getDate(date) + 1)
  ELSE IF interval = "monthly" THEN setMonth(date, getMonth(date) + 1)
  ELSE setFullYear(date, getFullYear(date) + 1)

normalizeToPeriodStart(date, zoom) ==
  IF zoom = "monthly" THEN setDate(date, 1)
  ELSE IF zoom = "yearly" THEN setDate(setMonth(date, 0), 1)
  ELSE date

\* ------------------------------------------------------------------------
\* Numbers
\* ------------------------------------------------------------------------
Fin(n) == [k |-> "fin", v |-> n]
Null == [k |-> "null", v |-> 0]
NaN == [k |-> "nan", v |-> 0]
PosInf == [k |-> "inf", v |-> 0]
NegInf == [k |-> "ninf", v |-> 0]

\* x || 0 : null, NaN and 0 are falsy
OrZero(x) == IF x.k \in {"null", "nan"} THEN Fin(0) ELSE x

\* x || 1
OrOne(x) == IF x.k \in {"null", "nan"} \/ x = Fin(0) THEN Fin(1) ELSE x

\* x > 0
GtZero(x) == x.k = "inf" \/ (x.k = "fin" /\ x.v > 0)

\* 100 * ln(1 + r/100), rounded, for the annual rates r the model feeds in
Ln1p(r) ==
  CASE r = 10  -> 10
    [] r = 25  -> 22
    [] r = 100 -> 69
    [] r = 0   -> 0
    [] r = -25 -> -29
    [] r = -50 -> -69

\* ------------------------------------------------------------------------
\* The projection: chartData of PortfolioBenchmarkChart
\* ------------------------------------------------------------------------

\* xirr > 0 ? Math.pow(1 + xirr / 100, 1 / 12) - 1 : 0, as the logarithm of
\* the annual growth factor: [k, ln] stands for the monthly rate
\* exp(ln / 1200) - 1, and k = "inf" for the rate Infinity.
MonthlyRate(xirr) ==
  IF GtZero(xirr)
  THEN IF xirr.k = "inf" THEN [k |-> "inf", ln |-> 0]
       ELSE [k |-> "fin", ln |-> Ln1p(xirr.v)]
  ELSE [k |-> "fin", ln |-> 0]

MaxPoints(zoom) ==
  IF zoom = "daily" THEN MaxPointsDaily
  ELSE IF zoom = "monthly" THEN MaxPointsMonthly
  ELSE MaxPointsYearly

\* (current - startDate) / (1000 * 60 * 60 * 24 * 30.44), in hundredths of a
\* day: the months elapsed are this number / 3044.
MonthsElapsed_reversed(current, startDate) ==
  LET d == TimeDiff(startDate, current)
  IN  d.day * 100 + (d.ms \div 864000)

MonthsElapsed(current, startDate) ==
  LET d == TimeDiff(current, startDate)
  IN  d.day * 100 + (d.ms \div 864000)

\* initialValue * Math.pow(1 + monthlyRate, monthsElapsed) for
\* monthsElapsed >= 0 (current never precedes startDate): Infinity^0 is 1.
Compound(rate, elapsed) ==
  IF rate.k = "inf"
  THEN IF elapsed = 0 THEN [k |-> "fin", lg |-> 0] ELSE [k |-> "inf", lg |-> 0]
  ELSE [k |-> "fin", lg |-> rate.ln * elapsed]

\* ((value - initialValue) / initialValue) * 100 for a positive finite
\* initialValue: Infinity stays Infinity, and a finite amount gives the
\* percentage (exp(lg / 3652800) - 1) * 100, kept as its lg.
ReturnPct(value) == value

\* portfolioValue - benchmarkValue: Infinity - Infinity is NaN; for finite
\* amounts lg is the difference of the two logarithms, of the same sign as
\* the difference of the amounts.
Difference(p, b) ==
  IF p.k = "fin" /\ b.k = "fin" THEN [k |-> "fin", lg |-> p.lg - b.lg]
  ELSE IF p.k = "inf" /\ b.k = "inf" THEN [k |-> "nan", lg |-> 0]
  ELSE IF p.k = "inf" THEN [k |-> "inf", lg |-> 0]
  ELSE [k |-> "ninf", lg |-> 0]

\* The point with portfolioPct computed from benchmarkValue
Point_pctOfOtherSeries(label, portfolioValue, benchmarkValue) ==
  [date |-> label,
   portfolio |-> portfolioValue,
   benchmark |-> benchmarkValue,
   difference |-> Difference(portfolioValue, benchmarkValue),
   portfolioPct |-> ReturnPct(benchmarkValue),
   benchmarkPct |-> ReturnPct(benchmarkValue)]

Point(label, portfolioValue, benchmarkValue) ==
  [date |-> label,
   portfolio |-> portfolioValue,
   benchmark |-> benchmarkValue,
   difference |-> Difference(portfolioValue, benchmarkValue),
   portfolioPct |-> ReturnPct(portfolioValue),
   benchmarkPct |-> ReturnPct(benchmarkValue)]

\* while (current <= endDate && pointCount < maxPoints)
LoopContinues_offByOne(current, endDate, pointCount, maxPoints) ==
  TimeLE(current, endDate) /\ pointCount <= maxPoints

LoopContinues(current, endDate, pointCount, maxPoints) ==
  TimeLE(current, endDate) /\ pointCount < maxPoints

\* if (data.length < 2)
NeedsFallback_onlyEmpty(data) == Len(data) < 1

NeedsFallback(data) == Len(data) < FallbackPoints

\* One evaluation of the loop condition and, when it holds, one run of the
\* loop body.  st holds the loop's locals (current, data, pointCount) and
\* `done`, set once the condition has failed.
LoopStep(st, startDate, endDate, zoom, pRate, bRate) ==
  IF LoopContinues(st.current, endDate, st.pointCount, MaxPoints(zoom))
  THEN LET monthsElapsed == MonthsElapsed(st.current, startDate)
           point == Point(formatDateForZoom(st.current, zoom),
                          Compound(pRate, monthsElapsed),
                          Compound(bRate, monthsElapsed))
       IN  [current |-> incrementDate(st.current, zoom),
            data |-> Append(st.data, point),
            pointCount |-> st.pointCount + 1,
            done |-> FALSE]
  ELSE [st EXCEPT !.done = TRUE]

\* At most n consecutive steps of the loop from st, in order (split in halves
\* to keep the evaluation shallow).
RECURSIVE LoopRun(_, _, _, _, _, _, _)
LoopRun(st, n, startDate, endDate, zoom, pRate, bRate) ==
  IF st.done \/ n = 0 THEN st
  ELSE IF n = 1 THEN LoopStep(st, startDate, endDate, zoom, pRate, bRate)
  ELSE LoopRun(LoopRun(st, n \div 2, startDate, endDate, zoom, pRate, bRate),
               n - (n \div 2), startDate, endDate, zoom, pRate, bRate)

\* The stepping loop: the points pushed while the loop runs.  The condition
\* fails after at most MaxPoints(zoom) + 1 passes of the body.
LoopData(startDate, endDate, zoom, pRate, bRate) ==
  LoopRun([current |-> startDate, data |-> <<>>, pointCount |-> 0, done |-> FALSE],
          MaxPoints(zoom) + 3, startDate, endDate, zoom, pRate, bRate).data

\* The fallback block: two more points pushed onto data, one month apart,
\* starting one month before the clock value `now` read in the block.
\* monthsElapsed = i months are i * 3044 hundredths of a day.
FallbackData(data, now, zoom, pRate, bRate) ==
  LET start == setMonth(now, getMonth(now) - 1)
      pt(i) == LET date == setMonth(start, getMonth(start) + i)
               IN  Point(formatDateForZoom(date, zoom),
                         Compound(pRate, i * 3044),
                         Compound(bRate, i * 3044))
  IN  Append(Append(data, pt(0)), pt(1))

\* The chartData callback up to the end of the stepping loop.  endDate is
\* the value of new Date() read for the end of the window.
ChartLoop(sum, oldest, zoom, endDate) ==
  LET pRate == MonthlyRate(OrZero(sum.portfolio_xirr))
      bRate == MonthlyRate(OrZero(sum.benchmark_xirr))
      startDate == normalizeToPeriodStart(oldest, zoom)
  IN  [data |-> LoopData(startDate, endDate, zoom, pRate, bRate),
       initialValue |-> OrOne(sum.total_cost_value),
       zoom |-> zoom, startDate |-> startDate, endDate |-> endDate,
       pRate |-> pRate, bRate |-> bRate]

\* The rest of the callback.  fallbackNow is the value of new Date() the
\* fallback block reads.  The result holds the returned array (data) and the
\* callback's locals (run): initialValue, the granularity, startDate, endDate,
\* the number of points the loop pushed, whether the fallback block ran and
\* the clock value it read.
ChartResult(loop, fallbackNow) ==
  LET fallback == NeedsFallback(loop.data)
  IN  [data |-> IF fallback
                THEN FallbackData(loop.data, fallbackNow, loop.zoom,
                                  loop.pRate, loop.bRate)
                ELSE loop.data,
       run |-> [initialValue |-> loop.initialValue,
                zoom |-> loop.zoom,
                startDate |-> loop.startDate,
                endDate |-> loop.endDate,
                loopPoints |-> Len(loop.data),
                fallback |-> fallback,
                fallbackNow |-> IF fallback THEN fallbackNow ELSE loop.endDate]]

\* chartData for given values of the clock reads
ChartData(sum, oldest, zoom, endDate, fallbackNow) ==
  ChartResult(ChartLoop(sum, oldest, zoom, endDate), fallbackNow).data

\* ------------------------------------------------------------------------
\* Window start and automatic granularity
\* ------------------------------------------------------------------------

\* A holding's date_of_entry is null, "", a string Date cannot parse ("bad"),
\* or a date string ("date") with the time value t that new Date(d) gives it.
NullEntry == [k |-> "null", t |-> Time(0, 0)]
EmptyEntry == [k |-> "empty", t |-> Time(0, 0)]
BadEntry == [k |-> "bad", t |-> Time(0, 0)]
DateEntry(y, m, d) == [k |-> "date", t |-> Time(MakeDay(y, m - 1, d), 0)]

\* A date string with a time of day, ms milliseconds after midnight
DateTimeEntry(y, m, d, ms) == [k |-> "date", t |-> Time(MakeDay(y, m - 1, d), ms)]

\* Math.min over the time values of a non-empty sequence of dates
RECURSIVE MinTime(_)
MinTime(dates) ==
  IF Len(dates) = 1 THEN dates[1]
  ELSE LET m == MinTime(Tail(dates))
       IN  IF TimeLE(dates[1], m) THEN dates[1] ELSE m

\* oldestEntryDate taking the first parseable date instead of the earliest
OldestEntryDate_first(hs, clock) ==
  LET strings == SelectSeq(hs, LAMBDA e : e.k # "null" /\ e.k # "empty")
      valid == SelectSeq(strings, LAMBDA e : e.k # "bad")
  IN  IF Len(valid) = 0 THEN setMonth(clock, getMonth(clock) - 12)
      ELSE valid[1].t

\* oldestEntryDate; clock is the value of new Date() in the fallback branch.
OldestEntryDate(hs, clock) ==
  LET strings == SelectSeq(hs, LAMBDA e : e.k # "null" /\ e.k # "empty")
      valid == SelectSeq(strings, LAMBDA e : e.k # "bad")
      dates == [i \in 1..Len(valid) |-> valid[i].t]
  IN  IF Len(dates) = 0 THEN setMonth(clock, getMonth(clock) - 12)
      ELSE MinTime(dates)

\* autoZoomLevel with a window of exactly one month taken as daily
AutoZoomLevel_inclusive(oldest, clock) ==
  LET d == TimeDiff(clock, oldest)
  IN  IF d.day < 30 \/ (d.day = 30 /\ d.ms <= 38016000) THEN "daily"
      ELSE IF d.day > 3652 \/ (d.day = 3652 /\ d.ms > 69120000) THEN "yearly"
      ELSE "monthly"

\* autoZoomLevel; monthsDiff = (now - oldest) / (30.44 days) is compared as a
\* [day, ms] difference: 30.44 days are 30 days 38016000 ms, and 120 months
\* are 3652 days 69120000 ms.
AutoZoomLevel(oldest, clock) ==
  LET d == TimeDiff(clock, oldest)
  IN  IF d.day < 30 \/ (d.day = 30 /\ d.ms < 38016000) THEN "daily"
      ELSE IF d.day > 3652 \/ (d.day = 3652 /\ d.ms > 69120000) THEN "yearly"
      ELSE "monthly"

\* ------------------------------------------------------------------------
\* EquityDeepDive: the amounts on its cards
\* ------------------------------------------------------------------------

\* toLakhs(num): "Rs 0" for null, undefined and NaN; from 100000 on
\* "Rs <n / 100000 with 2 decimals> Lakhs", kept as the number of hundredths
\* of a lakh that toFixed(2) prints (n is never half way between two of them
\* here); below 100000 "Rs <n in en-IN digit grouping>", kept as n.
toLakhs(num) ==
  IF num.k \in {"null", "nan"} THEN [unit |-> "Rs", form |-> "plain", n |-> 0]
  ELSE IF num.v >= 100000
       THEN [unit |-> "Rs", form |-> "lakhs", n |-> (num.v + 500) \div 1000]
       ELSE [unit |-> "Rs", form |-> "plain", n |-> num.v]

\* x ?? 0
NullishZero(x) == IF x.k = "null" THEN Fin(0) ELSE x

\* missed = (benchmark_gains ?? 0) - (total_gain_loss ?? 0)
Missed(s) == NullishZero(s.benchmark_gains).v - NullishZero(s.total_gain_loss).v

\* The text under "Total Missed Gains" / "Alpha Generated":
\* missed > 0 ? toLakhs(missed) : "+" + toLakhs(Math.abs(missed))
MissedText(s) ==
  IF Missed(s) > 0
  THEN [plus |-> FALSE, amount |-> toLakhs(Fin(Missed(s)))]
  ELSE [plus |-> TRUE, amount |-> toLakhs(Fin(0 - Missed(s)))]

\* What EquityDeepDive renders for summary s: the amount of each card
EquityDeepDive(s) ==
  [investedEquityValue |-> toLakhs(s.total_cost_value),
   currentEquityValue |-> toLakhs(s.equity_value),
   yourGains |-> toLakhs(s.total_gain_loss),
   benchmarkGains |-> toLakhs(s.benchmark_gains),
   missed |-> MissedText(s)]

\* The fields of the summary that EquityDeepDive and its test read
EquitySummary(tc, ec, ev, tg, eg, bg) ==
  [total_cost_value |-> tc, equity_cost_value |-> ec, equity_value |-> ev,
   total_gain_loss |-> tg, equity_gain_loss |-> eg, benchmark_gains |-> bg]

\* createEmptySummary()
EmptyEquitySummary == EquitySummary(Fin(0), Fin(0), Fin(0), Fin(0), Fin(0), Fin(0))

\* ------------------------------------------------------------------------
\* WarningRail: notices grouped by section
\* ------------------------------------------------------------------------

\* The tooltip of a notice shows at most this many fund names
MaxVisibleSchemes == 12

\* SECTION_LABELS, in its order
SECTION_LABELS ==
  << [key |-> "valuation", label |-> "Valuation"],
     [key |-> "overlap", label |-> "Overlap"],
     [key |-> "performance", label |-> "Performance"],
     [key |-> "fixed_income", label |-> "Fixed Income"],
     [key |-> "risk", label |-> "Risk"],
     [key |-> "tax", label |-> "Tax"],
     [key |-> "guidelines", label |-> "Guidelines"],
     [key |-> "benchmark", label |-> "Benchmark"],
     [key |-> "classification", label |-> "Classification"] >>

\* fallbackSectionLabel(section): "_" becomes " " and every word gets a
\* capital, for the section keys outside SECTION_LABELS that the model uses
fallbackSectionLabel(section) ==
  CASE section = "alpha" -> "Alpha"
    [] section = "custom_area" -> "Custom Area"
    [] section = "other" -> "Other"
    [] section = "zeta" -> "Zeta"

\* a.localeCompare(b) < 0 for the same keys: their place in the alphabet
LocaleRank(section) ==
  CASE section = "alpha" -> 1
    [] section = "custom_area" -> 2
    [] section = "other" -> 3
    [] section = "zeta" -> 4

\* A fund name of affected_schemes is null, or a string: the fund numbered
\* id (0 for no text at all), in capitals or not, with or without blanks
\* around it.
NoName == [k |-> "null", pad |-> FALSE, upper |-> FALSE, id |-> 0]
Name(pad, upper, id) == [k |-> "string", pad |-> pad, upper |-> upper, id |-> id]

\* (scheme || "").trim()
TrimName(scheme) ==
  IF scheme.k = "null" THEN Name(FALSE, FALSE, 0)
  ELSE Name(FALSE, scheme.id # 0 /\ scheme.upper, scheme.id)

\* value.toLowerCase()
LowerName(value) == Name(value.pad, FALSE, value.id)

\* One pass of the loop of normalizeSchemes over scheme; st holds normalized
\* and seen.
NormalizeStep(st, scheme) ==
  LET value == TrimName(scheme)
      key == LowerName(value)
  IN  IF value.id = 0 THEN st
      ELSE IF key \in st.seen THEN st
      ELSE [normalized |-> Append(st.normalized, value),
            seen |-> st.seen \cup {key}]

RECURSIVE NormalizeUpTo(_, _)
NormalizeUpTo(schemes, n) ==
  IF n = 0 THEN [normalized |-> <<>>, seen |-> {}]
  ELSE NormalizeStep(NormalizeUpTo(schemes, n - 1), schemes[n])

\* normalizeSchemes taking every name that has text, without the seen set
normalizeSchemes_keepDuplicates(schemes) ==
  IF schemes = <<>> THEN <<>>
  ELSE SelectSeq([i \in 1..Len(schemes) |-> TrimName(schemes[i])],
                 LAMBDA v : v.id # 0)

\* normalizeSchemes(schemes); undefined is given as the empty sequence
normalizeSchemes(schemes) ==
  IF schemes = <<>> THEN <<>>
  ELSE NormalizeUpTo(schemes, Len(schemes)).normalized

\* A warning: its message (a number standing for the text), its section
\* ("" when it has none) and its affected_schemes
Warning(message, section, schemes) ==
  [message |-> message, section |-> section, affected_schemes |-> schemes]

\* item.section || "other"
SectionKey(item) == IF item.section = "" THEN "other" ELSE item.section

\* The first n warnings put into the map of grouped, kept as the sequence of
\* its entries in insertion order
RECURSIVE GroupedUpTo(_, _)
GroupedUpTo(ws, n) ==
  IF n = 0 THEN <<>>
  ELSE LET map == GroupedUpTo(ws, n - 1)
           key == SectionKey(ws[n])
           at == { i \in 1..Len(map) : map[i].key = key }
       IN  IF at = {} THEN Append(map, [key |-> key, items |-> <<ws[n]>>])
           ELSE [i \in 1..Len(map) |->
                   IF i \in at
                   THEN [key |-> key, items |-> Append(map[i].items, ws[n])]
                   ELSE map[i]]

\* grouped
Grouped(ws) == GroupedUpTo(ws, Len(ws))

\* keys sorted by localeCompare: key x put in its place in the sorted seq
RECURSIVE InsertKey(_, _)
InsertKey(seq, x) ==
  IF seq = <<>> THEN <<x>>
  ELSE IF LocaleRank(x) < LocaleRank(Head(seq)) THEN <<x>> \o seq
  ELSE <<Head(seq)>> \o InsertKey(Tail(seq), x)

RECURSIVE SortKeys(_)
SortKeys(keys) ==
  IF keys = <<>> THEN <<>>
  ELSE InsertKey(SortKeys(Tail(keys)), Head(keys))

\* orderedSections with the unknown sections left in the order of the map
OrderedSections_unsorted(grouped) ==
  LET has(key) == \E i \in 1..Len(grouped) : grouped[i].key = key
      knownSections == SelectSeq(SECTION_LABELS, LAMBDA e : has(e.key))
      knownKeys == { knownSections[i].key : i \in 1..Len(knownSections) }
      keys == [i \in 1..Len(grouped) |-> grouped[i].key]
      unknownKeys == SelectSeq(keys, LAMBDA k : k \notin knownKeys)
  IN  knownSections
        \o [i \in 1..Len(unknownKeys) |->
              [key |-> unknownKeys[i], label |-> fallbackSectionLabel(unknownKeys[i])]]

\* orderedSections
OrderedSections(grouped) ==
  LET has(key) == \E i \in 1..Len(grouped) : grouped[i].key = key
      knownSections == SelectSeq(SECTION_LABELS, LAMBDA e : has(e.key))
      knownKeys == { knownSections[i].key : i \in 1..Len(knownSections) }
      keys == [i \in 1..Len(grouped) |-> grouped[i].key]
      unknownKeys == SortKeys(SelectSeq(keys, LAMBDA k : k \notin knownKeys))
  IN  knownSections
        \o [i \in 1..Len(unknownKeys) |->
              [key |-> unknownKeys[i], label |-> fallbackSectionLabel(unknownKeys[i])]]

\* What is rendered for one warning of a section: its message, and the
\* SectionInfoTooltip (none, or one) with the count of its title, the names
\* it lists and the N of "+ N more" (0 when that line is not rendered)
WarningItem(item) ==
  LET affectedSchemes == normalizeSchemes(item.affected_schemes)
      visibleSchemes ==
        SubSeq(affectedSchemes, 1,
               IF Len(affectedSchemes) < MaxVisibleSchemes
               THEN Len(affectedSchemes) ELSE MaxVisibleSchemes)
      extraSchemeCount ==
        IF Len(affectedSchemes) - Len(visibleSchemes) > 0
        THEN Len(affectedSchemes) - Len(visibleSchemes) ELSE 0
  IN  [message |-> item.message,
       tooltip |->
         IF Len(affectedSchemes) > 0
         THEN << [count |-> Len(affectedSchemes),
                  names |-> visibleSchemes,
                  more |-> extraSchemeCount] >>
         ELSE <<>>]

\* The block of one section: its heading and its warnings
WarningSection(grouped, section) ==
  LET items == (CHOOSE e \in { grouped[i] : i \in 1..Len(grouped) } :
                  e.key = section.key).items
  IN  [key |-> section.key, label |-> section.label,
       items |-> [i \in 1..Len(items) |-> WarningItem(items[i])]]

NoticesTitle == "Data Quality & Methodology Notices"

\* WarningRail that renders the block for every list, the empty one too
WarningRail_alwaysBlock(ws) ==
  LET grouped == Grouped(ws)
      orderedSections == OrderedSections(grouped)
  IN  [rendered |-> TRUE, title |-> NoticesTitle,
       sections |-> [i \in 1..Len(orderedSections) |->
                       WarningSection(grouped, orderedSections[i])]]

\* WarningRail: what the component returns for the warnings ws
WarningRail(ws) ==
  LET grouped == Grouped(ws)
      orderedSections == OrderedSections(grouped)
  IN  IF Len(ws) = 0 THEN [rendered |-> FALSE, title |-> "", sections |-> <<>>]
      ELSE [rendered |-> TRUE, title |-> NoticesTitle,
            sections |-> [i \in 1..Len(orderedSections) |->
                            WarningSection(grouped, orderedSections[i])]]

\* ------------------------------------------------------------------------
\* Uploading a statement: UploadPage, and UploadSection inside App
\* ------------------------------------------------------------------------

\* A file is known by its name, a stem and an extension; no file is null.
NoFile == [stem |-> "", ext |-> ""]
File(stem, ext) == [stem |-> stem, ext |-> ext]

\* toLowerCase() of the extensions the model uses
LowerExt(ext) ==
  CASE ext = ".PDF" -> ".pdf"
    [] ext = ".Json" -> ".json"
    [] OTHER -> ext

\* name.toLowerCase().endsWith(".pdf") taken without toLowerCase()
IsPdf_caseSensitive(file) == file.ext = ".pdf"

\* file.name.toLowerCase().endsWith(".pdf")
IsPdf(file) == LowerExt(file.ext) = ".pdf"

\* file.name.toLowerCase().endsWith(".json")
IsJson(file) == LowerExt(file.ext) = ".json"

\* A password is the text typed, with the blanks typed around it
Password(text, blanks) == [text |-> text, blanks |-> blanks]

\* password.trim()
TrimPassword(pw) == Password(pw.text, 0)

\* !password.trim(): the trimmed password is the empty string
BlankPassword(pw) == TrimPassword(pw) = Password("", 0)

\* The messages the forms set
NoError == "null"
SelectFileMessage == "Please select a CAS PDF or JSON file."
PasswordRequiredMessage ==
  "Password is required for PDF files. CAS PDFs are usually protected with your PAN (e.g. ABCDE1234F)."
DropTypeMessage == "Please select a PDF or JSON file."
AnalysisFailedMessage == "Analysis failed."
NoSummaryMessage == "Analysis returned no summary data."
ConnectionErrorMessage == "Connection error. Is the backend running?"

\* What fetch("/api/analyze") ends with: a rejection (the network failed), or
\* a response with a status and a body that is JSON text or not.  A JSON
\* body is an AnalysisResponse: success, whether it has a summary, and
\* error (NoError when absent or null).
NetworkFailure == [k |-> "failure", status |-> 0, json |-> FALSE,
                   success |-> FALSE, summary |-> FALSE, error |-> NoError]
JsonResponse(status, success, summary, error) ==
  [k |-> "response", status |-> status, json |-> TRUE,
   success |-> success, summary |-> summary, error |-> error]
TextResponse(status) ==
  [k |-> "response", status |-> status, json |-> FALSE,
   success |-> FALSE, summary |-> FALSE, error |-> NoError]

\* response.ok
ResponseOk(r) == r.status >= 200 /\ r.status <= 299

\* The message of the TypeError fetch rejects with, and of the SyntaxError
\* response.json() rejects with
FetchFailedMessage == "Failed to fetch"
JsonSyntaxMessage == "Unexpected token < in JSON at position 0"

\* `HTTP ${response.status}` for the statuses the model uses
HttpMessage(status) ==
  CASE status = 400 -> "HTTP 400"
    [] status = 413 -> "HTTP 413"
    [] status = 500 -> "HTTP 500"
    [] status = 502 -> "HTTP 502"

\* The AnalysisResponse of the statement file: its summary, when it has one,
\* is the analysis of that file
AnalysisOf(r, file) ==
  [success |-> r.success, summary |-> IF r.summary THEN file ELSE NoFile,
   error |-> r.error]
NoResult == [success |-> FALSE, summary |-> NoFile, error |-> NoError]

\* How a promise settles
Resolved(value) == [settled |-> "resolved", value |-> value, message |-> ""]
Rejected(message) == [settled |-> "rejected", value |-> NoResult, message |-> message]

\* analyzePortfolio(file, password) when fetch ends with r: the body is
\* parsed first, then response.ok is looked at
analyzePortfolio(file, r) ==
  IF r.k = "failure" THEN Rejected(FetchFailedMessage)
  ELSE IF ~r.json THEN Rejected(JsonSyntaxMessage)
  ELSE IF ~ResponseOk(r)
       THEN Rejected(IF r.error # NoError THEN r.error ELSE HttpMessage(r.status))
  ELSE Resolved(AnalysisOf(r, file))

\* progress and currentProgress are kept in tenths of a percent
Percent(n) == n * 10

\* The interval callback without Math.min(..., 95)
NextProgress_uncapped(currentProgress) ==
  IF currentProgress < Percent(95)
  THEN LET increment == IF currentProgress < Percent(50) THEN 20
                        ELSE IF currentProgress < Percent(80) THEN 15 ELSE 8
       IN  currentProgress + increment
  ELSE currentProgress

\* The interval callback: currentProgress after one more tick
NextProgress(currentProgress) ==
  IF currentProgress < Percent(95)
  THEN LET increment == IF currentProgress < Percent(50) THEN 20
                        ELSE IF currentProgress < Percent(80) THEN 15 ELSE 8
       IN  IF currentProgress + increment < Percent(95)
           THEN currentProgress + increment ELSE Percent(95)
  ELSE currentProgress

\* progressIntervalRef.current and the currentProgress its callback closes over
NoInterval == [active |-> FALSE, currentProgress |-> 0]
Interval(currentProgress) == [active |-> TRUE, currentProgress |-> currentProgress]

\* The call of analyzePortfolio in flight
NoRequest == [file |-> NoFile, password |-> Password("", 0)]
Request(file, pw) == [file |-> file, password |-> pw]

\* ------------------------------------------------------------------------
\* HoldingsTable: search filter, grouping and CSV export
\* ------------------------------------------------------------------------

\* Texts are sequences of characters.
\* c.toLowerCase() for the capitals the model's texts have
LowerChar(c) ==
  CASE c = "A" -> "a" [] c = "B" -> "b" [] c = "D" -> "d" [] c = "E" -> "e"
    [] c = "F" -> "f" [] c = "G" -> "g" [] c = "H" -> "h" [] c = "I" -> "i"
    [] c = "L" -> "l" [] c = "Q" -> "q" [] c = "X" -> "x"
    [] OTHER -> c

\* text.toLowerCase()
ToLowerCase(text) == [i \in 1..Len(text) |-> LowerChar(text[i])]

\* text.trim()
Trim(text) ==
  LET inked == { i \in 1..Len(text) : text[i] # " " }
  IN  IF inked = {} THEN <<>>
      ELSE SubSeq(text, CHOOSE i \in inked : \A j \in inked : i <= j,
                        CHOOSE i \in inked : \A j \in inked : i >= j)

\* text.includes(query)
Includes(text, query) ==
  \E i \in 1..(Len(text) - Len(query) + 1) : SubSeq(text, i, i + Len(query) - 1) = query

\* The categories the model's holdings have
EquityText == <<"E", "q", "u", "i", "t", "y">>
FixedIncomeText == <<"F", "i", "x", "e", "d", " ", "I", "n", "c", "o", "m", "e">>
HybridText == <<"H", "y", "b", "r", "i", "d">>
LowerEquityText == <<"e", "q", "u", "i", "t", "y">>

\* A holding, with the fields the filter, the grouping and the first four
\* columns of the export read; style_category is <<>> when it is absent
Holding(name, category, sub, style) ==
  [scheme_name |-> name, category |-> category, sub_category |-> sub,
   style_category |-> style]

\* The predicate of holdings.filter for the lower-cased, trimmed query
MatchesQuery(h, query) ==
  \/ Includes(ToLowerCase(h.scheme_name), query)
  \/ Includes(ToLowerCase(h.sub_category), query)
  \/ Includes(ToLowerCase(h.category), query)
  \/ (h.style_category # <<>> /\ Includes(ToLowerCase(h.style_category), query))

\* filteredHoldings
FilteredHoldings(hs, q) ==
  IF Trim(q) = <<>> THEN hs
  ELSE SelectSeq(hs, LAMBDA h : MatchesQuery(h, Trim(ToLowerCase(q))))

\* The group forEach puts a holding in, comparing categories whatever their
\* capitals
GroupOf_anyCapitals(h) ==
  IF ToLowerCase(h.category) = ToLowerCase(EquityText) THEN "equity"
  ELSE IF ToLowerCase(h.category) = ToLowerCase(FixedIncomeText) THEN "debt"
  ELSE "other"

\* The group forEach puts a holding in
GroupOf(h) ==
  IF h.category = EquityText THEN "equity"
  ELSE IF h.category = FixedIncomeText THEN "debt"
  ELSE "other"

\* equityHoldings, debtHoldings, otherHoldings
GroupHoldings(filtered, group) == SelectSeq(filtered, LAMBDA h : GroupOf(h) = group)

\* The first row of the file, for the columns the model keeps
CsvHeaders ==
  << <<"F", "u", "n", "d", " ", "N", "a", "m", "e">>, <<"C", "a", "t", "e", "g", "o", "r", "y">>,
     <<"S", "u", "b", " ", "C", "a", "t", "e", "g", "o", "r", "y">>, <<"S", "t", "y", "l", "e">> >>

\* The header rows of the groups
EquityHeader == << <<"E", "Q", "U", "I", "T", "Y">> >>
DebtHeader == << <<"F", "I", "X", "E", "D", " ", "I", "N", "C", "O", "M", "E", " ", "/", " ", "D", "E", "B", "T">> >>
OthersHeader == << <<"O", "T", "H", "E", "R", "S">> >>

\* The row of a holding: its first four cells (the cells after them are
\* numbers and the benchmark name, formatted from the same holding)
CsvRow(h) == << h.scheme_name, h.category, h.sub_category, h.style_category >>

\* The rows of one group: header, holdings, and the empty row that follows
\* the equity and the debt group
CsvBlock(header, hs, emptyRowAfter) ==
  IF Len(hs) > 0
  THEN <<header>> \o [i \in 1..Len(hs) |-> CsvRow(hs[i])]
         \o (IF emptyRowAfter THEN << <<>> >> ELSE <<>>)
  ELSE <<>>

\* handleDownloadCSV: the rows of the file, the column names first
CsvRows(hs, q) ==
  LET filtered == FilteredHoldings(hs, q)
  IN  <<CsvHeaders>>
        \o CsvBlock(EquityHeader, GroupHoldings(filtered, "equity"), TRUE)
        \o CsvBlock(DebtHeader, GroupHoldings(filtered, "debt"), TRUE)
        \o CsvBlock(OthersHeader, GroupHoldings(filtered, "other"), FALSE)

\* ------------------------------------------------------------------------
\* The component as a state machine
\* ------------------------------------------------------------------------
VARIABLES
  equitySummary,    \* prop summary of EquityDeepDive
  equityCards,      \* what EquityDeepDive has rendered
  warnings,         \* prop warnings of WarningRail
  rail,             \* what WarningRail has rendered
  now,              \* the wall clock, the value new Date() / Date.now() returns
  steps,            \* how often the clock has advanced (bounded by MaxClockSteps)
  summary,          \* prop summary: total_cost_value, portfolio_xirr, benchmark_xirr
  holdings,         \* prop holdings: the date_of_entry of each holding
  oldestEntryDate,  \* useMemo
  autoZoomLevel,    \* useMemo
  zoomLevel,        \* useState
  lastZoomTime,     \* useState
  chartData,        \* useMemo: the array handed to the chart
  chartRun,         \* the locals of the chartData callback that produced chartData
  prevData,         \* the array the previous run of the callback returned
  prevRun,          \* the locals of that previous run
  userSelected,     \* history: a handler of the user has set the granularity
  host,             \* which component holds the upload form
  mounted,          \* the upload form is mounted
  password,         \* useState
  selectedFile,     \* useState
  loading,          \* useState
  error,            \* useState
  progress,         \* useState
  analysisComplete, \* useState (UploadPage)
  analysisResult,   \* useState (UploadPage)
  progressInterval, \* progressIntervalRef and the interval it holds
  pc,               \* where the async handler of the form stands
  request,          \* the arguments of the analyzePortfolio call in flight
  awaited,          \* const result, once analyzePortfolio has resolved
  appLoading,       \* App: useState loading
  appResult,        \* App: useState result
  tableHoldings,    \* HoldingsTable: prop holdings
  searchQuery,      \* HoldingsTable: useState
  csvRows,          \* HoldingsTable: the rows of the file last downloaded
  isNoticesModalMounted, \* DashboardPage: useState
  isNoticesModalVisible, \* DashboardPage: useState
  animationFrame,   \* DashboardPage: a requestAnimationFrame callback is queued
  unmountTimeout    \* DashboardPage: the timeout of MODAL_ANIMATION_MS is set

\* The state of the other components of the dashboard
\* The state of the upload form and of the App around it
uploadVars == <<host, mounted, password, selectedFile, loading, error, progress,
                analysisComplete, analysisResult, progressInterval, pc, request,
                awaited, appLoading, appResult>>

\* The state of the pages
\* The state of HoldingsTable
tableVars == <<tableHoldings, searchQuery, csvRows>>

\* The state of the notices modal of DashboardPage
modalVars == <<isNoticesModalMounted, isNoticesModalVisible, animationFrame,
               unmountTimeout>>

pageVars == <<uploadVars, tableVars, modalVars>>

panelVars == <<equitySummary, equityCards, warnings, rail, pageVars>>

\* The state of the cards and notices of the dashboard
cardVars == <<equitySummary, equityCards, warnings, rail>>

\* The state of PortfolioBenchmarkChart
chartVars == <<now, steps, summary, holdings, oldestEntryDate, autoZoomLevel,
               zoomLevel, lastZoomTime, chartData, chartRun, prevData, prevRun,
               userSelected>>

vars == <<now, steps, summary, holdings, oldestEntryDate, autoZoomLevel,
          zoomLevel, lastZoomTime, chartData, chartRun, prevData, prevRun,
          userSelected, panelVars>>

\* No run of the callback yet
NoRun ==
  [initialValue |-> Fin(1),
   zoom |-> "none", startDate |-> Time(0, 0), endDate |-> Time(0, 0),
   loopPoints |-> 0, fallback |-> FALSE, fallbackNow |-> Time(0, 0)]

Summary(c, p, b) == [total_cost_value |-> c, portfolio_xirr |-> p, benchmark_xirr |-> b]

\* The summaries the model feeds in: the two of the component's tests, and
\* null, NaN, +-Infinity, rates below, at and above -100, zero and positive,
\* and a principal of 0.
Summaries ==
  { Summary(Fin(100000), Fin(-50), Fin(-25)),
    Summary(Fin(100000), Fin(-100), Null),
    Summary(Fin(100000), PosInf, Fin(10)),
    Summary(Fin(100000), PosInf, PosInf),
    Summary(Fin(100000), NaN, NegInf),
    Summary(Fin(100000), Fin(-150), Fin(0)),
    Summary(Fin(100000), Fin(10), Fin(25)),
    Summary(Fin(0), Fin(0), Fin(25)),
    Summary(Fin(100000), Fin(0), Fin(100)) }

\* The clock at mount: a morning, and the last millisecond of a 31st.
Morning == Time(MakeDay(2026, 10, 5), 36000000)
MonthEnd == Time(MakeDay(2026, 2, 31), MsPerDay - 1)

\* The holdings the model feeds in: none with a usable date, and entry dates
\* decades and days before the morning clock, on its day, and after it; one
\* mixes dates with an unparseable string; the last three are 30.44 days
\* before the morning clock, to the millisecond and one millisecond less, and
\* 120 * 30.44 days before it.
HoldingsInputs ==
  { <<NullEntry, EmptyEntry, BadEntry>>,
    <<DateEntry(1975, 3, 10)>>,
    <<DateEntry(2026, 10, 20)>>,
    <<DateEntry(2026, 11, 5)>>,
    <<DateEntry(2026, 11, 6)>>,
    <<DateEntry(2026, 10, 20), BadEntry, DateEntry(2026, 9, 1)>>,
    <<DateTimeEntry(2026, 10, 5, 84384000)>>,
    <<DateTimeEntry(2026, 10, 5, 84384001)>>,
    <<DateTimeEntry(2016, 11, 4, 53280000)>> }

\* What the user lets pass between two events: just less than the throttle
\* interval, the throttle interval, a day
ClockAdvances ==
  { [day |-> 0, ms |-> ZOOM_THROTTLE_MS - 1], [day |-> 0, ms |-> ZOOM_THROTTLE_MS],
    [day |-> 1, ms |-> 0] }

\* The values new Date() can give the fallback block of a chartData callback
\* that read endDate at clock value c: the loop runs between the two reads,
\* and the clock may have passed to its next millisecond.
FallbackClocks(c, n) == IF n < MaxClockSteps THEN {c, TimePlusMs(c, 1)} ELSE {c}

\* The mounts the model starts from, as <<summary, holdings, clock>>: in the
\* morning, every summary with no holdings (as in the component's tests) or
\* with a recent entry date, and every holdings input with two positive rates;
\* at the month's end, entry dates before, on and after the clock's day.
BaseSummary == Summary(Fin(100000), Fin(10), Fin(25))
TestSummaries ==
  { Summary(Fin(100000), Fin(-50), Fin(-25)), Summary(Fin(100000), Fin(-100), Null) }

Mounts ==
  (TestSummaries \X { <<>> } \X {Morning})
    \cup ((Summaries \ TestSummaries) \X { <<DateEntry(2026, 10, 20)>> } \X {Morning})
    \cup ({BaseSummary} \X HoldingsInputs \X {Morning})
    \cup ({BaseSummary}
            \X { <<DateEntry(2026, 3, 1)>>, <<DateEntry(2026, 3, 31)>>,
                 <<DateEntry(2026, 4, 1)>>, <<DateEntry(2026, 11, 5)>> }
            \X {MonthEnd})

\* The first render (mount) at clock value c: oldestEntryDate, autoZoomLevel
\* and chartData's endDate read the clock before the loop, the fallback block
\* after it.  useState(autoZoomLevel) and useState(0) give the initial state.
MountChartFrom(mounts) ==
  \E p \in mounts :
    LET c == p[3]
        oldest == OldestEntryDate(p[2], c)
        auto == AutoZoomLevel(oldest, c)
        loop == ChartLoop(p[1], oldest, auto, c)
    IN  \E f \in (IF NeedsFallback(loop.data) THEN FallbackClocks(c, 0) ELSE {c}) :
          LET memo == ChartResult(loop, f)
          IN  /\ now = f
              /\ steps = IF f = c THEN 0 ELSE 1
              /\ summary = p[1]
              /\ holdings = p[2]
              /\ oldestEntryDate = oldest
              /\ autoZoomLevel = auto
              /\ zoomLevel = auto
              /\ lastZoomTime = Time(0, 0)
              /\ chartData = memo.data
              /\ chartRun = memo.run
              /\ prevData = <<>>
              /\ prevRun = NoRun
              /\ userSelected = FALSE

MountChart == MountChartFrom(Mounts)

\* The other components as rendered for createEmptySummary(), whose warnings
\* are []
MountCards ==
  /\ equitySummary = EmptyEquitySummary
  /\ equityCards = EquityDeepDive(EmptyEquitySummary)
  /\ warnings = <<>>
  /\ rail = WarningRail(<<>>)

\* The components that hold an upload form: UploadPage, UploadSection in the
\* App of App.tsx (onResult only), UploadSection in the App with the loading
\* skeleton (onResult and onStart)
Hosts == {"UploadPage", "App", "SkeletonApp"}

\* The useState initial values of the form and of the App, in host h
MountUpload(h) ==
  /\ host = h
  /\ mounted = TRUE
  /\ password = Password("", 0)
  /\ selectedFile = NoFile
  /\ loading = FALSE
  /\ error = NoError
  /\ progress = 0
  /\ analysisComplete = FALSE
  /\ analysisResult = NoResult
  /\ progressInterval = NoInterval
  /\ pc = "idle"
  /\ request = NoRequest
  /\ awaited = NoResult
  /\ appLoading = FALSE
  /\ appResult = NoResult

\* HoldingsTable as rendered for createEmptyHoldings(), nothing downloaded
MountTable ==
  /\ tableHoldings = <<>>
  /\ searchQuery = <<>>
  /\ csvRows = <<>>

\* The useState initial values of DashboardPage; nothing is scheduled
MountModal ==
  /\ isNoticesModalMounted = FALSE
  /\ isNoticesModalVisible = FALSE
  /\ animationFrame = FALSE
  /\ unmountTimeout = FALSE

MountPages == MountUpload("UploadPage") /\ MountTable /\ MountModal

MountPanels == MountCards /\ MountPages

Init == MountChart /\ MountPanels

\* The render that follows setZoomLevel(zoom) in a handler: chartData is
\* recomputed when effectiveZoomLevel (its only dependency that a handler
\* changes) has changed.
Rerender(zoom) ==
  /\ zoomLevel' = zoom
  /\ IF zoom # zoomLevel
     THEN LET loop == ChartLoop(summary, oldestEntryDate, zoom, now)
          IN  \E f \in (IF NeedsFallback(loop.data)
                        THEN FallbackClocks(now, steps) ELSE {now}) :
                LET memo == ChartResult(loop, f)
                IN  /\ chartData' = memo.data
                    /\ chartRun' = memo.run
                    /\ now' = f
                    /\ steps' = IF f = now THEN steps ELSE steps + 1
     ELSE UNCHANGED <<chartData, chartRun, now, steps>>
  /\ UNCHANGED <<summary, holdings, oldestEntryDate, autoZoomLevel,
                 prevData, prevRun, panelVars>>

\* The buttons' handler routed through the throttle of changeGranularity
ClickHandler_throttled(z) ==
  IF TimeDiff(now, lastZoomTime).day = 0
       /\ TimeDiff(now, lastZoomTime).ms < ZOOM_THROTTLE_MS
  THEN UNCHANGED <<zoomLevel, lastZoomTime, userSelected>>
  ELSE /\ zoomLevel' = z
       /\ lastZoomTime' = now
       /\ userSelected' = TRUE

\* onClick={() => setZoomLevel(z)} of the Daily / Monthly / Yearly buttons:
\* what the handler does to the component's state
ClickHandler(z) ==
  /\ zoomLevel' = z
  /\ userSelected' = TRUE
  /\ UNCHANGED lastZoomTime

\* A click on the Daily / Monthly / Yearly button and the render it causes
ClickGranularity(z) ==
  /\ ClickHandler(z)
  /\ Rerender(z)

\* The granularity a zoom step leads to
ZoomStep(direction, zoom) ==
  IF direction = "in"
  THEN IF zoom = "yearly" THEN "monthly"
       ELSE IF zoom = "monthly" THEN "daily" ELSE zoom
  ELSE IF zoom = "daily" THEN "monthly"
       ELSE IF zoom = "monthly" THEN "yearly" ELSE zoom

\* The throttle letting an event through one millisecond early
Throttled_early(clock, last) ==
  LET d == TimeDiff(clock, last)
  IN  d.day < 0 \/ (d.day = 0 /\ d.ms < ZOOM_THROTTLE_MS - 1)

\* now - lastZoomTime < ZOOM_THROTTLE_MS
Throttled(clock, last) ==
  LET d == TimeDiff(clock, last)
  IN  d.day < 0 \/ (d.day = 0 /\ d.ms < ZOOM_THROTTLE_MS)

\* handleWheel -> changeGranularity(direction): deltaY < 0 zooms in
changeGranularity(direction) ==
  IF Throttled(now, lastZoomTime)
  THEN UNCHANGED vars
  ELSE /\ lastZoomTime' = now
       /\ userSelected' = TRUE
       /\ Rerender(ZoomStep(direction, zoomLevel))

\* Time passes between events
Tick(a) ==
  /\ steps < MaxClockSteps
  /\ now' = [day |-> now.day + a.day + ((now.ms + a.ms) \div MsPerDay),
             ms |-> (now.ms + a.ms) % MsPerDay]
  /\ steps' = steps + 1
  /\ UNCHANGED <<summary, holdings, oldestEntryDate, autoZoomLevel,
                 zoomLevel, lastZoomTime, chartData, chartRun, prevData, prevRun,
                 userSelected, panelVars>>

Next ==
  \/ \E z \in ZoomLevels : ClickGranularity(z)
  \/ \E d \in {"in", "out"} : changeGranularity(d)
  \/ \E a \in ClockAdvances : Tick(a)

Spec == Init /\ [][Next]_vars

\* ------------------------------------------------------------------------
\* Two runs of the projection on the same inputs
\* ------------------------------------------------------------------------

\* The chartData callback runs again for the same summary, oldestEntryDate
\* and granularity (React runs a memo callback again whenever it has dropped
\* the cached value); the previous result is kept for comparison.
Reinvoke ==
  LET loop == ChartLoop(summary, oldestEntryDate, zoomLevel, now)
  IN  \E f \in (IF NeedsFallback(loop.data)
                THEN FallbackClocks(now, steps) ELSE {now}) :
        LET memo == ChartResult(loop, f)
        IN  /\ chartData' = memo.data
            /\ chartRun' = memo.run
            /\ prevData' = chartData
            /\ prevRun' = chartRun
            /\ now' = f
            /\ steps' = IF f = now THEN steps ELSE steps + 1
            /\ UNCHANGED <<summary, holdings, oldestEntryDate, autoZoomLevel,
                           zoomLevel, lastZoomTime, userSelected, panelVars>>

\* ------------------------------------------------------------------------
\* The parent hands the chart other holdings
\* ------------------------------------------------------------------------

\* A render with the prop holdings changed to h: the memo of oldestEntryDate
\* runs again (its dependency holdings has changed) and returns a new Date,
\* so the memos of autoZoomLevel and chartData run again too; the state
\* kept by useState (zoomLevel, lastZoomTime) stays as it is.
ReceiveHoldings(h) ==
  /\ h # holdings
  /\ LET oldest == OldestEntryDate(h, now)
         auto == AutoZoomLevel(oldest, now)
         loop == ChartLoop(summary, oldest, zoomLevel, now)
     IN  \E f \in (IF NeedsFallback(loop.data)
                   THEN FallbackClocks(now, steps) ELSE {now}) :
           LET memo == ChartResult(loop, f)
           IN  /\ holdings' = h
               /\ oldestEntryDate' = oldest
               /\ autoZoomLevel' = auto
               /\ chartData' = memo.data
               /\ chartRun' = memo.run
               /\ now' = f
               /\ steps' = IF f = now THEN steps ELSE steps + 1
  /\ UNCHANGED <<summary, zoomLevel, lastZoomTime, prevData, prevRun,
                 userSelected, panelVars>>

\* The holdings the parent hands over: a fortnight, eight months and a
\* decade of history, and none with a date
PropsHoldings ==
  { <<DateEntry(2026, 10, 20)>>, <<DateEntry(2026, 3, 1)>>,
    <<DateEntry(2016, 1, 1)>>, <<NullEntry, EmptyEntry, BadEntry>> }

InitProps ==
  /\ MountChartFrom({BaseSummary} \X PropsHoldings \X {Morning})
  /\ MountPanels

NextProps ==
  \/ \E h \in PropsHoldings : ReceiveHoldings(h)
  \/ \E z \in ZoomLevels : ClickGranularity(z)
  \/ \E d \in {"in", "out"} : changeGranularity(d)
  \/ \E a \in ClockAdvances : Tick(a)

SpecProps == InitProps /\ [][NextProps]_vars

TwinNext ==
  \/ Reinvoke
  \/ \E a \in ClockAdvances : Tick(a)

SpecTwin == Init /\ [][TwinNext]_vars

\* ------------------------------------------------------------------------
\* The other components of the dashboard, rendered for the props they get
\* ------------------------------------------------------------------------

\* The summaries EquityDeepDive is given: that of its test, an all-equity
\* portfolio (equity-only and portfolio-wide amounts equal), amounts below a
\* lakh, a loss, amounts that print alike without being equal, and nulls.
EquitySummaries ==
  { EquitySummary(Fin(900000), Fin(500000), Fin(620000), Fin(0), Fin(120000), Fin(110000)),
    EquitySummary(Fin(500000), Fin(500000), Fin(620000), Fin(120000), Fin(120000), Fin(110000)),
    EquitySummary(Fin(90000), Fin(50000), Fin(62000), Fin(15000), Fin(12000), Fin(20000)),
    EquitySummary(Fin(900000), Fin(500000), Fin(400000), Fin(-150000), Fin(-100000), Fin(110000)),
    EquitySummary(Fin(500400), Fin(500000), Fin(620000), Fin(120300), Fin(120000), Fin(0)),
    EquitySummary(Null, Null, Null, Null, Null, Null) }

\* EquityDeepDive is rendered for the summary s
RenderEquityDeepDive(s) ==
  /\ equitySummary' = s
  /\ equityCards' = EquityDeepDive(s)
  /\ UNCHANGED <<chartVars, warnings, rail, pageVars>>

\* n funds, each named once
Funds(n) == [i \in 1..n |-> Name(FALSE, TRUE, i)]

\* A warning without affected_schemes
Notice(message, section) == Warning(message, section, <<>>)

\* The warnings WarningRail is given: none; those of its tests; known
\* sections out of order, all nine of them, unknown sections, no section,
\* sections met again later in the list; and affected_schemes with blank
\* names only, with names repeated in other capitals or with blanks around
\* them, and with 12, 13 and 20 funds.
WarningInputs ==
  { <<>>,
    << Notice(1, "valuation"), Notice(2, "performance") >>,
    << Notice(1, "performance"), Notice(2, "valuation") >>,
    << Notice(1, "zeta"), Notice(2, "valuation"), Notice(3, "alpha"),
       Notice(4, "classification") >>,
    << Notice(1, ""), Notice(2, "tax"), Notice(3, "other"),
       Notice(4, "custom_area"), Notice(5, "") >>,
    << Notice(1, "risk"), Notice(2, "overlap"), Notice(3, "risk"),
       Notice(4, "overlap"), Notice(5, "risk") >>,
    << Notice(1, "classification"), Notice(2, "benchmark"), Notice(3, "guidelines"),
       Notice(4, "tax"), Notice(5, "risk"), Notice(6, "fixed_income"),
       Notice(7, "performance"), Notice(8, "overlap"), Notice(9, "valuation") >>,
    << Warning(1, "valuation", Funds(1)) >>,
    << Warning(1, "valuation", << NoName, Name(TRUE, FALSE, 0), Name(FALSE, FALSE, 0) >>) >>,
    << Warning(1, "valuation",
               << Name(TRUE, TRUE, 1), Name(FALSE, FALSE, 1), Name(FALSE, TRUE, 2),
                  NoName, Name(TRUE, FALSE, 2) >>) >>,
    << Warning(1, "tax", << Name(FALSE, FALSE, 1), Name(FALSE, TRUE, 1) >>) >>,
    << Warning(1, "valuation", Funds(12)) >>,
    << Warning(1, "valuation", Funds(13)) >>,
    << Warning(1, "valuation", Funds(13) \o << Name(TRUE, FALSE, 1) >>) >>,
    << Warning(1, "valuation",
               << Name(TRUE, FALSE, 0) >> \o Funds(12) \o << Name(FALSE, FALSE, 12) >>) >>,
    << Warning(1, "performance", Funds(2)), Notice(2, "valuation"),
       Warning(3, "performance", << NoName >>) >>,
    << Warning(1, "", Funds(20)) >> }

\* WarningRail is rendered for the warnings ws
RenderWarningRail(ws) ==
  /\ warnings' = ws
  /\ rail' = WarningRail(ws)
  /\ UNCHANGED <<chartVars, equitySummary, equityCards, pageVars>>

\* The dashboard once the chart is mounted for one portfolio
InitPanels ==
  /\ MountChartFrom({ <<BaseSummary, <<DateEntry(2026, 10, 20)>>, Morning>> })
  /\ MountPanels

NextPanels ==
  \/ \E s \in EquitySummaries : RenderEquityDeepDive(s)
  \/ \E ws \in WarningInputs : RenderWarningRail(ws)

SpecPanels == InitPanels /\ [][NextPanels]_vars

\* ------------------------------------------------------------------------
\* The upload form as a state machine
\* ------------------------------------------------------------------------

\* The files the user picks or drops, the passwords typed, and what the
\* request to /api/analyze ends with
PickedFiles ==
  { File("a", ".pdf"), File("b", ".PDF"), File("c", ".json"), File("d", ".txt") }
Passwords == { Password("", 0), Password("", 3), Password("ABCDE1234F", 1) }
Responses ==
  { JsonResponse(200, TRUE, TRUE, NoError),
    JsonResponse(200, FALSE, FALSE, "Incorrect password"),
    JsonResponse(200, FALSE, FALSE, NoError),
    JsonResponse(200, TRUE, FALSE, NoError),
    JsonResponse(400, FALSE, FALSE, "Incorrect password"),
    JsonResponse(500, FALSE, FALSE, NoError),
    TextResponse(502),
    NetworkFailure }

\* A set-state call of the form: it takes effect while the form is mounted
SetState(old, new) == IF mounted THEN new ELSE old

\* UploadPage.handleFileSelect with a file picked (nothing happens when the
\* dialog is cancelled)
handleFileSelect(f) ==
  /\ host = "UploadPage" /\ mounted
  /\ selectedFile' = f
  /\ error' = NoError
  /\ UNCHANGED <<host, mounted, password, loading, progress, analysisComplete,
                 analysisResult, progressInterval, pc, request, awaited,
                 appLoading, appResult>>
  /\ UNCHANGED <<chartVars, cardVars, tableVars, modalVars>>

\* UploadPage.handleDrop with the file f dropped
handleDrop(f) ==
  /\ host = "UploadPage" /\ mounted
  /\ IF IsPdf(f) \/ IsJson(f)
     THEN selectedFile' = f /\ error' = NoError
     ELSE error' = DropTypeMessage /\ UNCHANGED selectedFile
  /\ UNCHANGED <<host, mounted, password, loading, progress, analysisComplete,
                 analysisResult, progressInterval, pc, request, awaited,
                 appLoading, appResult>>
  /\ UNCHANGED <<chartVars, cardVars, tableVars, modalVars>>

\* onChange of the file input of UploadSection: f, or null when the dialog
\* was cancelled
SectionFileChange(f) ==
  /\ host # "UploadPage" /\ mounted
  /\ selectedFile' = f
  /\ UNCHANGED <<host, mounted, password, loading, error, progress,
                 analysisComplete, analysisResult, progressInterval, pc, request,
                 awaited, appLoading, appResult>>
  /\ UNCHANGED <<chartVars, cardVars, tableVars, modalVars>>

\* onChange of the password input; UploadPage renders it for a file named
\* *.pdf only
setPassword(pw) ==
  /\ mounted
  /\ host = "UploadPage" => selectedFile # NoFile /\ IsPdf(selectedFile)
  /\ password' = pw
  /\ UNCHANGED <<host, mounted, selectedFile, loading, error, progress,
                 analysisComplete, analysisResult, progressInterval, pc, request,
                 awaited, appLoading, appResult>>
  /\ UNCHANGED <<chartVars, cardVars, tableVars, modalVars>>

\* The validation both handlers start with: the message to set, or NoError
ValidationError(file, pw) ==
  IF file = NoFile THEN SelectFileMessage
  ELSE IF IsPdf(file) /\ BlankPassword(pw) THEN PasswordRequiredMessage
  ELSE NoError

\* UploadPage.handleAnalyze up to its first await.  The Analyze button is
\* rendered unless View Portfolio is, and is disabled while loading or
\* without a file.
handleAnalyze ==
  /\ host = "UploadPage" /\ mounted
  /\ ~(analysisComplete /\ analysisResult # NoResult)
  /\ ~loading /\ selectedFile # NoFile
  /\ IF ValidationError(selectedFile, password) # NoError
     THEN /\ error' = ValidationError(selectedFile, password)
          /\ UNCHANGED <<loading, progress, analysisComplete, progressInterval,
                         pc, request>>
     ELSE /\ error' = NoError
          /\ loading' = TRUE
          /\ progress' = Percent(1)
          /\ analysisComplete' = FALSE
          /\ progressInterval' = Interval(Percent(1))
          /\ pc' = "analyzePortfolio"
          /\ request' = Request(selectedFile, password)
  /\ UNCHANGED <<host, mounted, password, selectedFile, analysisResult, awaited,
                 appLoading, appResult>>
  /\ UNCHANGED <<chartVars, cardVars, tableVars, modalVars>>

\* UploadSection.handleSubmit up to its first await.  The submit button is
\* disabled while loading.  In the App with the skeleton onStart sets
\* App.loading, the App renders the skeleton in place of the form and the
\* form's cleanup clears the interval just created.
handleSubmit ==
  /\ host # "UploadPage" /\ mounted
  /\ ~loading
  /\ IF ValidationError(selectedFile, password) # NoError
     THEN /\ error' = ValidationError(selectedFile, password)
          /\ UNCHANGED <<mounted, loading, progress, progressInterval, pc, request,
                         appLoading, appResult>>
     ELSE /\ error' = NoError
          /\ loading' = TRUE
          /\ progress' = Percent(1)
          /\ pc' = "analyzePortfolio"
          /\ request' = Request(selectedFile, password)
          /\ IF host = "SkeletonApp"
             THEN /\ appLoading' = TRUE
                  /\ appResult' = NoResult
                  /\ mounted' = FALSE
                  /\ progressInterval' = [active |-> FALSE, currentProgress |-> Percent(1)]
             ELSE /\ progressInterval' = Interval(Percent(1))
                  /\ UNCHANGED <<mounted, appLoading, appResult>>
  /\ UNCHANGED <<host, password, selectedFile, analysisComplete, analysisResult,
                 awaited>>
  /\ UNCHANGED <<chartVars, cardVars, tableVars, modalVars>>

\* The callback of setInterval(..., 100)
ProgressTick ==
  /\ progressInterval.active
  /\ progressInterval' = Interval(NextProgress(progressInterval.currentProgress))
  /\ progress' = IF progressInterval.currentProgress < Percent(95)
                 THEN SetState(progress, NextProgress(progressInterval.currentProgress))
                 ELSE progress
  /\ UNCHANGED <<host, mounted, password, selectedFile, loading, error,
                 analysisComplete, analysisResult, pc, request, awaited,
                 appLoading, appResult>>
  /\ UNCHANGED <<chartVars, cardVars, tableVars, modalVars>>

\* fetch ends with r and the handler runs on from await analyzePortfolio(...)
\* to its next await, or through its catch block
Respond(r) ==
  /\ pc = "analyzePortfolio"
  /\ LET promise == analyzePortfolio(request.file, r)
     IN  IF promise.settled = "resolved"
         THEN /\ awaited' = promise.value
              /\ progress' = SetState(progress, Percent(100))
              /\ pc' = "delay"
              /\ UNCHANGED <<error, loading>>
         ELSE /\ error' = SetState(error, promise.message)
              /\ progress' = SetState(progress, 0)
              /\ loading' = SetState(loading, FALSE)
              /\ pc' = "idle"
              /\ UNCHANGED awaited
  /\ progressInterval' = NoInterval
  /\ request' = NoRequest
  /\ UNCHANGED <<host, mounted, password, selectedFile, analysisComplete,
                 analysisResult, appLoading, appResult>>
  /\ UNCHANGED <<chartVars, cardVars, tableVars, modalVars>>

\* The 300 ms delay is over and the handler runs to its end.  In
\* UploadSection onResult hands the result to the App, which renders the
\* dashboard in place of the form; the timeout of 100 ms the handler then
\* sets calls setProgress and setLoading of that unmounted form.
DelayDone ==
  /\ pc = "delay"
  /\ pc' = "idle"
  /\ awaited' = NoResult
  /\ IF ~awaited.success
     THEN /\ error' = SetState(error, IF awaited.error # NoError THEN awaited.error
                                      ELSE AnalysisFailedMessage)
          /\ progress' = SetState(progress, 0)
          /\ loading' = SetState(loading, FALSE)
          /\ UNCHANGED <<mounted, analysisComplete, analysisResult, appLoading, appResult>>
     ELSE IF awaited.summary = NoFile
     THEN /\ error' = SetState(error, NoSummaryMessage)
          /\ progress' = SetState(progress, 0)
          /\ loading' = SetState(loading, FALSE)
          /\ UNCHANGED <<mounted, analysisComplete, analysisResult, appLoading, appResult>>
     ELSE IF host = "UploadPage"
     THEN /\ analysisResult' = SetState(analysisResult, awaited)
          /\ analysisComplete' = SetState(analysisComplete, TRUE)
          /\ loading' = SetState(loading, FALSE)
          /\ UNCHANGED <<mounted, error, progress, appLoading, appResult>>
     ELSE /\ appResult' = awaited
          /\ appLoading' = FALSE
          /\ mounted' = FALSE
          /\ UNCHANGED <<error, progress, loading, analysisComplete, analysisResult>>
  /\ UNCHANGED <<host, password, selectedFile, progressInterval, request>>
  /\ UNCHANGED <<chartVars, cardVars, tableVars, modalVars>>

\* View Portfolio: navigate("/dashboard", ...) takes the user off the page;
\* its cleanup clears the interval if there is one
ViewPortfolio ==
  /\ host = "UploadPage" /\ mounted
  /\ analysisComplete /\ analysisResult # NoResult
  /\ mounted' = FALSE
  /\ progressInterval' = [progressInterval EXCEPT !.active = FALSE]
  /\ UNCHANGED <<host, password, selectedFile, loading, error, progress,
                 analysisComplete, analysisResult, pc, request, awaited,
                 appLoading, appResult>>
  /\ UNCHANGED <<chartVars, cardVars, tableVars, modalVars>>

\* Upload another: the App drops its result and renders a new form
UploadAnother ==
  /\ host # "UploadPage"
  /\ ~appLoading /\ appResult.summary # NoFile
  /\ appResult' = NoResult
  /\ mounted' = TRUE
  /\ password' = Password("", 0)
  /\ selectedFile' = NoFile
  /\ loading' = FALSE
  /\ error' = NoError
  /\ progress' = 0
  /\ progressInterval' = NoInterval
  /\ UNCHANGED <<host, analysisComplete, analysisResult, pc, request, awaited,
                 appLoading>>
  /\ UNCHANGED <<chartVars, cardVars, tableVars, modalVars>>

InitUpload ==
  /\ MountChartFrom({ <<BaseSummary, <<DateEntry(2026, 10, 20)>>, Morning>> })
  /\ MountCards
  /\ MountTable
  /\ MountModal
  /\ \E h \in Hosts : MountUpload(h)

NextUpload ==
  \/ \E f \in PickedFiles : handleFileSelect(f)
  \/ \E f \in PickedFiles : handleDrop(f)
  \/ \E f \in PickedFiles \cup {NoFile} : SectionFileChange(f)
  \/ \E pw \in Passwords : setPassword(pw)
  \/ handleAnalyze
  \/ handleSubmit
  \/ ViewPortfolio
  \/ UploadAnother
  \/ ProgressTick
  \/ \E r \in Responses : Respond(r)
  \/ DelayDone

SpecUpload == InitUpload /\ [][NextUpload]_vars

\* Every fetch ends, with a response or a failure, and every timeout set
\* runs out
UploadFairness ==
  /\ WF_vars(\E r \in Responses : Respond(r))
  /\ WF_vars(DelayDone)

SpecUploadFair == SpecUpload /\ UploadFairness

\* ------------------------------------------------------------------------
\* HoldingsTable as a state machine
\* ------------------------------------------------------------------------

\* Holdings: two equity funds, a debt fund, a hybrid fund whose name has
\* "Eq" in it, and a fund whose category is written "equity"
AxisFund == Holding(<<"A", "x">>, EquityText, <<"L", "g">>, <<"Q">>)
DexFund == Holding(<<"D", "e", "x">>, EquityText, <<"M", "i", "d">>, <<>>)
BondFund == Holding(<<"B", "o", "n", "d">>, FixedIncomeText, <<"L", "i", "q">>, <<>>)
EqGoldFund == Holding(<<"E", "q", "G">>, HybridText, <<"G", "o", "l", "d">>, <<>>)
IdxFund == Holding(<<"i", "d", "x">>, LowerEquityText, <<"L", "g">>, <<>>)

\* The lists of holdings the table is given: in mixed order, of one group
\* only, and with the same fund twice
TableInputs ==
  { <<BondFund, AxisFund, EqGoldFund, DexFund, IdxFund>>,
    <<AxisFund, DexFund>>,
    <<BondFund>>,
    <<EqGoldFund, AxisFund, AxisFund>> }

\* What is typed into the search box
Queries ==
  { <<>>, <<" ", " ">>, <<"e", "q">>, <<" ", "E", "Q", " ">>, <<"z">>, <<"f", "i", "x", "e", "d", " ", "i">>, <<"x">>, <<"l", "i">> }

\* HoldingsTable is rendered for the holdings hs
RenderHoldingsTable(hs) ==
  /\ hs # tableHoldings
  /\ tableHoldings' = hs
  /\ UNCHANGED <<searchQuery, csvRows, chartVars, cardVars, uploadVars, modalVars>>

\* onChange of the search box
setSearchQuery(q) ==
  /\ q # searchQuery
  /\ searchQuery' = q
  /\ UNCHANGED <<tableHoldings, csvRows, chartVars, cardVars, uploadVars, modalVars>>

\* The Download CSV button
handleDownloadCSV ==
  /\ csvRows' = CsvRows(tableHoldings, searchQuery)
  /\ UNCHANGED <<tableHoldings, searchQuery, chartVars, cardVars, uploadVars, modalVars>>

InitTable ==
  /\ MountChartFrom({ <<BaseSummary, <<DateEntry(2026, 10, 20)>>, Morning>> })
  /\ MountPanels

NextTable ==
  \/ \E hs \in TableInputs : RenderHoldingsTable(hs)
  \/ \E q \in Queries : setSearchQuery(q)
  \/ handleDownloadCSV

SpecTable == InitTable /\ [][NextTable]_vars

\* ------------------------------------------------------------------------
\* DashboardPage and its notices modal as a state machine
\* ------------------------------------------------------------------------

\* The effect on [isNoticesModalMounted, isNoticesModalVisible]: its cleanup
\* clears the timeout of the previous commit, and it sets a new one when the
\* modal is mounted and not visible
ModalEffect(isMounted, isVisible) == isMounted /\ ~isVisible

\* The notices button of the page (the page shows a result)
openNoticesModal ==
  /\ IF isNoticesModalMounted
     THEN /\ isNoticesModalVisible' = TRUE
          /\ UNCHANGED <<isNoticesModalMounted, animationFrame>>
     ELSE /\ isNoticesModalMounted' = TRUE
          /\ animationFrame' = TRUE
          /\ UNCHANGED isNoticesModalVisible
  /\ unmountTimeout' = ModalEffect(isNoticesModalMounted', isNoticesModalVisible')
  /\ UNCHANGED <<chartVars, cardVars, uploadVars, tableVars>>

\* The close button and the backdrop, rendered while the modal is mounted,
\* and the Escape key, listened to while it is mounted
closeNoticesModal ==
  /\ isNoticesModalMounted
  /\ isNoticesModalVisible' = FALSE
  /\ unmountTimeout' = ModalEffect(isNoticesModalMounted, isNoticesModalVisible')
  /\ UNCHANGED <<isNoticesModalMounted, animationFrame>>
  /\ UNCHANGED <<chartVars, cardVars, uploadVars, tableVars>>

\* The next animation frame runs the callbacks queued by openNoticesModal;
\* each of them is setIsNoticesModalVisible(true)
AnimationFrame ==
  /\ animationFrame
  /\ animationFrame' = FALSE
  /\ isNoticesModalVisible' = TRUE
  /\ unmountTimeout' = ModalEffect(isNoticesModalMounted, isNoticesModalVisible')
  /\ UNCHANGED isNoticesModalMounted
  /\ UNCHANGED <<chartVars, cardVars, uploadVars, tableVars>>

\* The timeout of MODAL_ANIMATION_MS runs out
UnmountTimeout ==
  /\ unmountTimeout
  /\ isNoticesModalMounted' = FALSE
  /\ unmountTimeout' = ModalEffect(isNoticesModalMounted', isNoticesModalVisible)
  /\ UNCHANGED <<isNoticesModalVisible, animationFrame>>
  /\ UNCHANGED <<chartVars, cardVars, uploadVars, tableVars>>

\* The page with the Dashboard below the modal: its holdings table works on
\* while the modal opens and closes
InitDashboard == InitTable

NextDashboard ==
  \/ \E hs \in TableInputs : RenderHoldingsTable(hs)
  \/ \E q \in Queries : setSearchQuery(q)
  \/ handleDownloadCSV
  \/ openNoticesModal
  \/ closeNoticesModal
  \/ AnimationFrame
  \/ UnmountTimeout

SpecDashboard == InitDashboard /\ [][NextDashboard]_vars

\* ------------------------------------------------------------------------
\* What the component renders besides the chart
\* ------------------------------------------------------------------------

\* The texts of the JSX the component returns: the labels of the three
\* granularity buttons and the names of the two areas.
RenderedTexts == {"Daily", "Monthly", "Yearly", "Benchmark", "Portfolio"}

\* The notices the component's tests look for
PortfolioUnavailableText == "Portfolio XIRR unavailable/invalid"
BenchmarkUnavailableText == "Benchmark XIRR unavailable/invalid"
FlatReferenceText == "Unavailable rates are shown as flat reference lines"

\* ------------------------------------------------------------------------
\* Properties
\* ------------------------------------------------------------------------

\* An annual rate that is null, non-finite or <= -100
Unavailable(r) == r.k # "fin" \/ r.v <= -100

Points == 1..Len(chartData)

IsFiniteNumber(x) == x.k = "fin"

\* The amount equals initialValue, the value the projection starts from
IsPrincipal(x) == x.k = "fin" /\ x.lg = 0

\* a <= b for two amounts
AmountLE(a, b) ==
  \/ a.k = "fin" /\ b.k = "fin" /\ a.lg <= b.lg
  \/ a.k = "fin" /\ b.k = "inf"
  \/ a.k = "inf" /\ b.k = "inf"

\* The period of label b directly follows the period of label a
NextPeriod(a, b, zoom) ==
  IF zoom = "daily" THEN MakeDay(b[1], b[2], b[3]) = MakeDay(a[1], a[2], a[3]) + 1
  ELSE IF zoom = "monthly" THEN b[1] * 12 + b[2] = a[1] * 12 + a[2] + 1
  ELSE b[1] = a[1] + 1

\* C1: a series whose annual rate is null, non-finite or <= -100 is flagged
\* unavailable, and its "XIRR unavailable/invalid" message is shown.
C1_UnavailableFlagged ==
  /\ Unavailable(summary.portfolio_xirr) => PortfolioUnavailableText \in RenderedTexts
  /\ Unavailable(summary.benchmark_xirr) => BenchmarkUnavailableText \in RenderedTexts

\* C2: with principal 100000, portfolio_xirr -50, benchmark_xirr -25 and
\* monthly granularity no flat-reference warning is shown and the series are
\* compounded with the negative rates: the final portfolio value is strictly
\* below the final benchmark value.
C2_NegativeRatesCompound ==
  (/\ summary = Summary(Fin(100000), Fin(-50), Fin(-25))
   /\ chartRun.zoom = "monthly")
  => /\ FlatReferenceText \notin RenderedTexts
     /\ IsFiniteNumber(chartData[Len(chartData)].portfolio)
     /\ IsFiniteNumber(chartData[Len(chartData)].benchmark)
     /\ chartData[Len(chartData)].portfolio.lg < chartData[Len(chartData)].benchmark.lg

\* C3: every generated point's portfolio value, benchmark value, both return
\* percentages and the difference are finite numbers, whatever the two rates.
C3_AllFinite ==
  \A i \in Points :
    /\ IsFiniteNumber(chartData[i].portfolio)
    /\ IsFiniteNumber(chartData[i].benchmark)
    /\ IsFiniteNumber(chartData[i].portfolioPct)
    /\ IsFiniteNumber(chartData[i].benchmarkPct)
    /\ IsFiniteNumber(chartData[i].difference)

\* C4: a series is flat at the principal at every point when its rate is
\* unavailable, and only then: a valid non-zero rate moves the value away
\* from the principal at some point.
C4_FlatIffUnavailable ==
  /\ Unavailable(summary.portfolio_xirr)
       => \A i \in Points : IsPrincipal(chartData[i].portfolio)
  /\ Unavailable(summary.benchmark_xirr)
       => \A i \in Points : IsPrincipal(chartData[i].benchmark)
  /\ (~Unavailable(summary.portfolio_xirr) /\ summary.portfolio_xirr.v # 0)
       => \E i \in Points : ~IsPrincipal(chartData[i].portfolio)
  /\ (~Unavailable(summary.benchmark_xirr) /\ summary.benchmark_xirr.v # 0)
       => \E i \in Points : ~IsPrincipal(chartData[i].benchmark)

\* The series v (one amount per point) is monotonic by the sign of the rate
\* r, for r > 0 and r < 0
MonotonicBySign(r, v) ==
  /\ r.v > 0 => \A i \in Points : i < Len(chartData) => AmountLE(v[i], v[i + 1])
  /\ r.v < 0 => \A i \in Points : i < Len(chartData) => AmountLE(v[i + 1], v[i])

C6_AtLeastTwoPoints == Len(chartData) >= 2

\* C6 witness: a window that starts on the day it ends, at daily granularity:
\* the loop pushed one point, and the chart has at least two.
C6_Witness ==
  /\ chartRun.zoom = "daily"
  /\ chartRun.startDate.day = chartRun.endDate.day
  /\ chartRun.loopPoints = 1
  /\ Len(chartData) >= 2

\* C7: the number of generated points never exceeds the cap of the selected
\* granularity (365 daily, 120 monthly, 50 yearly), and the loop stops within
\* that many passes.
C7_PointCap ==
  /\ chartRun.zoom = zoomLevel
  /\ chartRun.loopPoints <= MaxPoints(zoomLevel)
  /\ Len(chartData) <= MaxPoints(zoomLevel)

\* C7 witness: a yearly chart of a window of more than 50 years, cut at the cap
C7_Witness ==
  /\ zoomLevel = "yearly"
  /\ getFullYear(chartRun.endDate) - getFullYear(chartRun.startDate) >= MaxPointsYearly
  /\ Len(chartData) = MaxPointsYearly

\* C8: two runs of the projection with identical inputs (summary, holdings
\* entry dates, granularity and window) return identical sequences of points.
C8_Deterministic ==
  (/\ prevRun.zoom = chartRun.zoom
   /\ prevRun.startDate = chartRun.startDate
   /\ prevRun.endDate = chartRun.endDate)
  => prevData = chartData

\* C9: the points are in chronological order with one entry per granularity
\* step: each point's period directly follows that of the point before it,
\* also when the fallback is taken.
C9_OnePointPerStep ==
  \A i \in Points :
    i < Len(chartData)
      => NextPeriod(chartData[i].date, chartData[i + 1].date, chartRun.zoom)

\* C10: when the loop generated fewer than 2 points, the result is exactly 2
\* points spanning one period of the selected granularity and ending at now.
C10_FallbackTwoPoints ==
  chartRun.fallback
    => /\ Len(chartData) = 2
       /\ chartData[2].date = formatDateForZoom(chartRun.fallbackNow, chartRun.zoom)
       /\ NextPeriod(chartData[1].date, chartData[2].date, chartRun.zoom)

PeriodsPerYear(zoom) ==
  IF zoom = "daily" THEN 365 ELSE IF zoom = "monthly" THEN 12 ELSE 1

\* The amount v is initialValue * (1 + r / 100) ^ (t / periodsPerYear), the
\* value after t whole periods at the per-period rate
\* (1 + r / 100) ^ (1 / periodsPerYear) - 1.  An amount's lg is the logarithm
\* of its growth factor in units of 1 / (100 * 36528), 36528 being the
\* hundredths of a day in 12 months of 30.44 days.
IsPeriodValue(v, r, t, zoom) ==
  /\ v.k = "fin"
  /\ v.lg * PeriodsPerYear(zoom) = Ln1p(r.v) * t * 36528

\* C12: the per-period rate follows the granularity (365, 12 or 1 periods per
\* year), and the value at the t-th generated point, t = 0, 1, 2, ..., is
\* principal * (1 + periodRate) ^ t for every valid rate; the first point
\* equals the principal, and one yearly step multiplies the value by
\* (1 + r / 100).
C12_PeriodCompounding ==
  /\ chartRun.initialValue = summary.total_cost_value
  /\ \A i \in Points :
       /\ ~Unavailable(summary.portfolio_xirr)
            => IsPeriodValue(chartData[i].portfolio, summary.portfolio_xirr,
                             i - 1, chartRun.zoom)
       /\ ~Unavailable(summary.benchmark_xirr)
            => IsPeriodValue(chartData[i].benchmark, summary.benchmark_xirr,
                             i - 1, chartRun.zoom)

\* The time values of the holdings whose date_of_entry parses
ParseableEntryTimes == { holdings[i].t : i \in { j \in 1..Len(holdings) : holdings[j].k = "date" } }

\* The clock values the component can have been mounted at, given the clock now
MountClocks ==
  { c \in { p[3] : p \in Mounts } :
      TimeLE(c, now) /\ TimeDiff(now, c).day <= MaxClockSteps }

\* t is the time 12 months before the clock value c: the same day of the
\* month and time of day, one year earlier
TwelveMonthsBefore(t, c) ==
  /\ getFullYear(t) = getFullYear(c) - 1
  /\ getMonth(t) = getMonth(c)
  /\ getDate(t) = getDate(c)
  /\ t.ms = c.ms

\* C13: the window start (oldestEntryDate) is the earliest parseable
\* date_of_entry of the holdings; null, empty and unparseable entries are
\* ignored; when no holding has a parseable date it is 12 months before the
\* clock at mount.
C13_EarliestParseable ==
  IF ParseableEntryTimes = {}
  THEN \E c \in MountClocks : TwelveMonthsBefore(oldestEntryDate, c)
  ELSE /\ oldestEntryDate \in ParseableEntryTimes
       /\ \A t \in ParseableEntryTimes : TimeLE(oldestEntryDate, t)

\* C13 witness: three holdings, the second unparseable and the third earlier
\* than the first; the window starts at the third.
C13_Witness ==
  /\ Len(holdings) = 3
  /\ holdings[1].k = "date" /\ holdings[2].k = "bad" /\ holdings[3].k = "date"
  /\ TimeLT(holdings[3].t, holdings[1].t)
  /\ oldestEntryDate = holdings[3].t

\* C13, second case: only null, empty and unparseable entries, and the window
\* starts 12 months before the clock.
C13_WitnessNoDates ==
  /\ Len(holdings) = 3 /\ ParseableEntryTimes = {}
  /\ \E c \in MountClocks : TwelveMonthsBefore(oldestEntryDate, c)

\* The window from t to the clock value c in hundredths of a day, rounded
\* down, and the milliseconds left over; a month is 3044 hundredths of a day.
WindowCentiDays(t, c) == TimeDiff(c, t).day * 100 + (TimeDiff(c, t).ms \div 864000)
WindowRestMs(t, c) == TimeDiff(c, t).ms % 864000

\* The granularity for the window from t to c: daily below 1 month, yearly
\* above 120 months, monthly from exactly 1 to exactly 120 months
GranularityOfWindow(t, c) ==
  IF WindowCentiDays(t, c) < 3044 THEN "daily"
  ELSE IF WindowCentiDays(t, c) > 365280
          \/ (WindowCentiDays(t, c) = 365280 /\ WindowRestMs(t, c) > 0) THEN "yearly"
  ELSE "monthly"

\* C14: the component starts with the granularity selected from the window
\* length (clock at mount minus window start): daily below 1 month, yearly
\* above 120 months, monthly otherwise, exactly 1 and exactly 120 months
\* included; the automatic selection stays that of the window whatever the
\* user selects afterwards.
C14_AutoGranularity ==
  /\ zoomLevel = autoZoomLevel
  /\ [](\E c \in MountClocks : autoZoomLevel = GranularityOfWindow(oldestEntryDate, c))

\* C14 witness: a window of exactly 1 month (30.44 days) gives monthly, and the
\* user has since selected another granularity.
C14_Witness ==
  /\ WindowCentiDays(oldestEntryDate, now) = 3044
  /\ WindowRestMs(oldestEntryDate, now) = 0
  /\ autoZoomLevel = "monthly"
  /\ zoomLevel = "yearly"

\* C14, other boundary: a window of exactly 120 months gives monthly
C14_Witness120 ==
  /\ WindowCentiDays(oldestEntryDate, now) = 365280
  /\ WindowRestMs(oldestEntryDate, now) = 0
  /\ autoZoomLevel = "monthly"

\* C15: the granularity selector has no transition restrictions: in every
\* state, whatever the current granularity and however recent the last
\* change, a single user action (a click, whose render always completes)
\* leads to each of daily, monthly and yearly.
C15_AnyGranularityInOneAction ==
  \A z \in ZoomLevels : ENABLED (ClickHandler(z) /\ zoomLevel' = z)

\* C15 witness: the granularity is daily, a wheel or pinch change has just
\* been accepted (a further one would be throttled), and one action leads to
\* yearly, which is two wheel steps away.
C15_Witness ==
  /\ zoomLevel = "daily"
  /\ lastZoomTime = now
  /\ chartRun.endDate = now
  /\ ENABLED (ClickHandler("yearly") /\ zoomLevel' = "yearly")

\* At least ZOOM_THROTTLE_MS milliseconds lie between the times a and b, a <= b
ApartByThrottle(a, b) ==
  TimeDiff(b, a).day > 0
    \/ (TimeDiff(b, a).day = 0 /\ TimeDiff(b, a).ms >= ZOOM_THROTTLE_MS)

DisplayedAmounts ==
  { equityCards.investedEquityValue, equityCards.currentEquityValue,
    equityCards.yourGains, equityCards.benchmarkGains, equityCards.missed.amount }

\* C17: the Invested Equity Value card shows summary.equity_cost_value and the
\* gains card shows summary.equity_gain_loss; the portfolio-wide
\* total_cost_value and total_gain_loss are not displayed when they print
\* differently from the equity-only amounts.
C17_EquityOnlyCards ==
  /\ equityCards.investedEquityValue = toLakhs(equitySummary.equity_cost_value)
  /\ equityCards.yourGains = toLakhs(equitySummary.equity_gain_loss)
  /\ toLakhs(equitySummary.total_cost_value) # toLakhs(equitySummary.equity_cost_value)
       => toLakhs(equitySummary.total_cost_value) \notin DisplayedAmounts
  /\ toLakhs(equitySummary.total_gain_loss) # toLakhs(equitySummary.equity_gain_loss)
       => toLakhs(equitySummary.total_gain_loss) \notin DisplayedAmounts

\* The places of the rendered warnings: <<s, j>> is the j-th warning under
\* the s-th heading
RailPlaces ==
  UNION { { <<s, j>> : j \in 1..Len(rail.sections[s].items) }
          : s \in 1..Len(rail.sections) }

\* The places where the i-th warning of the list is rendered
PlacesOf(i) ==
  { p \in RailPlaces : rail.sections[p[1]].items[p[2]].message = warnings[i].message }

KnownSectionKeys == { SECTION_LABELS[i].key : i \in 1..Len(SECTION_LABELS) }

KnownSectionIndex(key) == CHOOSE i \in 1..Len(SECTION_LABELS) : SECTION_LABELS[i].key = key

\* Section a is to come before section b: known keys in the order of
\* SECTION_LABELS, then the unknown ones by alphabet
SectionBefore(a, b) ==
  IF a \in KnownSectionKeys
  THEN b \in KnownSectionKeys => KnownSectionIndex(a) < KnownSectionIndex(b)
  ELSE b \notin KnownSectionKeys /\ LocaleRank(a) < LocaleRank(b)

\* C18: every warning is rendered exactly once, under the heading of its own
\* section ("other" when its section is empty); known sections come first in
\* the order of SECTION_LABELS, then unknown sections in alphabetical order;
\* no heading is rendered twice or without a warning under it.
C18_GroupedBySection ==
  /\ \A i \in 1..Len(warnings) :
        /\ Cardinality(PlacesOf(i)) = 1
        /\ \A p \in PlacesOf(i) :
              rail.sections[p[1]].key
                = (IF warnings[i].section = "" THEN "other" ELSE warnings[i].section)
  /\ \A p \in RailPlaces : \E i \in 1..Len(warnings) : p \in PlacesOf(i)
  /\ \A s \in 1..Len(rail.sections) :
        /\ Len(rail.sections[s].items) > 0
        /\ rail.sections[s].key \in KnownSectionKeys
              => rail.sections[s].label
                   = SECTION_LABELS[KnownSectionIndex(rail.sections[s].key)].label
        /\ \A t \in 1..Len(rail.sections) :
              s < t => SectionBefore(rail.sections[s].key, rail.sections[t].key)

\* Known and unknown sections given out of order, rendered in order
C18_Witness ==
  /\ Len(warnings) = 4
  /\ warnings[1].section = "zeta"
  /\ warnings[3].section = "alpha"
  /\ [s \in 1..Len(rail.sections) |-> rail.sections[s].key]
       = <<"valuation", "classification", "alpha", "zeta">>

\* C19: nothing is rendered for an empty list of warnings, and the block
\* titled "Data Quality & Methodology Notices" for every other list.
C19_NothingWhenEmpty ==
  /\ warnings = <<>> => ~rail.rendered /\ rail.title = "" /\ rail.sections = <<>>
  /\ warnings # <<>>
       => rail.rendered /\ rail.title = "Data Quality & Methodology Notices"

\* The rail rendered for no warnings after it had been rendered for some
\* other summary's dashboard
C19_Witness ==
  /\ warnings = <<>>
  /\ ~rail.rendered
  /\ equitySummary # EmptyEquitySummary

\* A name with text in it
NonBlank(scheme) == scheme.k = "string" /\ scheme.id # 0

\* The funds named in schemes, whatever the capitals and the blanks around
FundsNamed(schemes) ==
  { schemes[i].id : i \in { j \in 1..Len(schemes) : NonBlank(schemes[j]) } }

\* Where fund id is named first in schemes
FirstNamedAt(schemes, id) ==
  CHOOSE i \in 1..Len(schemes) :
    /\ NonBlank(schemes[i]) /\ schemes[i].id = id
    /\ \A j \in 1..(i - 1) : ~(NonBlank(schemes[j]) /\ schemes[j].id = id)

\* The tooltip tip is the one the claim describes for the names schemes
IsAffectedFundsTooltip(tip, schemes) ==
  /\ Len(tip.names) <= 12
  /\ Len(tip.names) = (IF Cardinality(FundsNamed(schemes)) < 12
                       THEN Cardinality(FundsNamed(schemes)) ELSE 12)
  /\ tip.count = Len(tip.names) + tip.more
  /\ tip.count = Cardinality(FundsNamed(schemes))
  /\ \A p \in 1..Len(tip.names) :
        /\ tip.names[p].id \in FundsNamed(schemes)
        /\ ~tip.names[p].pad
        /\ tip.names[p].upper
             = schemes[FirstNamedAt(schemes, tip.names[p].id)].upper
        /\ Cardinality({ id \in FundsNamed(schemes) :
                           FirstNamedAt(schemes, id)
                             < FirstNamedAt(schemes, tip.names[p].id) }) = p - 1

\* C20: a warning has the info button exactly when affected_schemes holds a
\* non-blank name; its tooltip lists the names trimmed, without repeats up to
\* capitals, in the order of their first occurrence, at most 12 of them, and
\* the count of its title is the number of names listed plus the N of
\* "+ N more".
C20_AffectedFundsTooltip ==
  \A i \in 1..Len(warnings) :
    \A p \in PlacesOf(i) :
      LET item == rail.sections[p[1]].items[p[2]]
          schemes == warnings[i].affected_schemes
      IN  /\ Len(item.tooltip) <= 1
          /\ item.tooltip # <<>> <=> \E j \in 1..Len(schemes) : NonBlank(schemes[j])
          /\ item.tooltip # <<>> => IsAffectedFundsTooltip(item.tooltip[1], schemes)

\* Thirteen funds, one of them named twice: twelve listed and "+ 1 more"
C20_Witness ==
  /\ Len(warnings) = 1
  /\ Len(warnings[1].affected_schemes) = 14
  /\ Len(rail.sections) = 1
  /\ rail.sections[1].items[1].tooltip
       = << [count |-> 13, names |-> Funds(12), more |-> 1] >>

\* C21: as long as no handler of the user has set the granularity, the
\* granularity the chart is drawn with is the one auto-selected for the
\* holdings it has now, also after the holdings have changed.
C21_FollowsAutoUntilSelected ==
  ~userSelected => zoomLevel = autoZoomLevel /\ chartRun.zoom = autoZoomLevel

\* The name of the file ends in .pdf, whatever the capitals
EndsInPdf(file) == file.ext \in {".pdf", ".PDF"}

\* The input the form holds is valid: a file, and for a PDF a password with
\* more in it than blanks
ValidInput == selectedFile # NoFile /\ (EndsInPdf(selectedFile) => password.text # "")

\* C22: analyzePortfolio is called only for a selected file and, if its name
\* ends in .pdf, a password that is not blank, and is called for that file
\* and password; a handler that finds the input invalid sets a validation
\* message and leaves loading, progress and any result as they were.
C22_NoRequestUnlessValid ==
  [][ /\ (pc # "analyzePortfolio" /\ pc' = "analyzePortfolio")
          => ValidInput /\ request' = Request(selectedFile, password)
      /\ ((handleAnalyze \/ handleSubmit) /\ ~ValidInput)
          => /\ error' \in {SelectFileMessage, PasswordRequiredMessage}
             /\ pc' = pc /\ request' = request
             /\ loading' = loading /\ progress' = progress
             /\ analysisComplete' = analysisComplete
             /\ analysisResult' = analysisResult
             /\ appResult' = appResult /\ appLoading' = appLoading
      /\ (error' \in {SelectFileMessage, PasswordRequiredMessage} /\ error' # error)
          => ~ValidInput /\ pc' = pc
    ]_vars

\* A PDF named in capitals with a password of blanks has been refused
C22_Witness ==
  /\ selectedFile = File("b", ".PDF")
  /\ password = Password("", 3)
  /\ error = PasswordRequiredMessage
  /\ pc = "idle" /\ ~loading /\ progress = 0

\* The message the claim gives the rejection for the response r
ReportedMessage(r) == IF r.json /\ r.error # NoError THEN r.error ELSE HttpMessage(r.status)

\* C23: for every response that is not 2xx the promise is rejected with the
\* body's error field, or "HTTP <status>" when the body carries none, and the
\* form shows that message and is idle again (loading false, progress 0);
\* for a 2xx response the handler goes on with the parsed body.
C23_HttpErrorsReported ==
  [][ \A r \in Responses :
        (r.k = "response" /\ Respond(r))
          => IF r.status >= 200 /\ r.status <= 299
             THEN pc' = "delay" /\ awaited' = AnalysisOf(r, request.file)
             ELSE /\ pc' = "idle"
                  /\ error' = ReportedMessage(r)
                  /\ ~loading' /\ progress' = 0
    ]_vars

\* The holdings the table shows
ShownHoldings == FilteredHoldings(tableHoldings, searchQuery)

\* The holdings shown whose category makes them members of group g
ShownIn(g) ==
  SelectSeq(ShownHoldings,
            LAMBDA h : g = (IF h.category = EquityText THEN "equity"
                            ELSE IF h.category = FixedIncomeText THEN "debt"
                            ELSE "other"))

\* The rows of holdings hs as the file has them
DataRowsOf(hs) ==
  [i \in 1..Len(hs) |->
     << hs[i].scheme_name, hs[i].category, hs[i].sub_category, hs[i].style_category >>]

\* In the rows of a file the group with the header row header and the
\* members hs is laid out as the claim says
GroupLaidOut(rows, header, hs) ==
  LET at == { i \in 2..Len(rows) : rows[i] = header }
  IN  IF Len(hs) = 0 THEN at = {}
      ELSE /\ Cardinality(at) = 1
           /\ \A i \in at :
                 /\ i + Len(hs) <= Len(rows)
                 /\ SubSeq(rows, i + 1, i + Len(hs)) = DataRowsOf(hs)

\* The rows of a file are those the claim describes for the table as shown
ExportAsShown(rows) ==
  /\ Len(rows) >= 1
  /\ SelectSeq(Tail(rows), LAMBDA row : Len(row) = 4)
       = DataRowsOf(ShownIn("equity")) \o DataRowsOf(ShownIn("debt"))
           \o DataRowsOf(ShownIn("other"))
  /\ GroupLaidOut(rows, EquityHeader, ShownIn("equity"))
  /\ GroupLaidOut(rows, DebtHeader, ShownIn("debt"))
  /\ GroupLaidOut(rows, OthersHeader, ShownIn("other"))
  /\ \A i \in 2..Len(rows) :
        Len(rows[i]) = 1 => rows[i] \in {EquityHeader, DebtHeader, OthersHeader}

\* C24: the file downloaded has one data row for each holding the table
\* shows, each in one group, the groups in the order Equity, Fixed Income /
\* Debt, Others; each group that has holdings has its header row right
\* before them, a group without holdings has no row at all, and the category
\* of a holding decides its group.
C24_ExportGroupsShownHoldings ==
  [][handleDownloadCSV => ExportAsShown(csvRows')]_vars

\* The mixed list filtered by " EQ " has been exported: two equity funds, no
\* debt fund, and under Others the hybrid fund and the fund of category
\* "equity"
C24_Witness ==
  /\ Len(tableHoldings) = 5
  /\ searchQuery = <<" ", "E", "Q", " ">>
  /\ csvRows = << CsvHeaders,
                  EquityHeader, CsvRow(AxisFund), CsvRow(DexFund), <<>>,
                  OthersHeader, CsvRow(EqGoldFund), CsvRow(IdxFund) >>

\* C25: in the App with the loading skeleton every analysis started leaves
\* the loading screen again: App.loading, once true, becomes false, whatever
\* analyzePortfolio ends with.
C25_LoadingScreenEnds == appLoading ~> ~appLoading

\* View Portfolio is offered
ViewPortfolioOffered ==
  host = "UploadPage" /\ mounted /\ analysisComplete /\ analysisResult # NoResult

\* C26: whenever View Portfolio is offered, the result it navigates with is
\* the successful analysis of the file that is selected now.
C26_ResultOfSelectedFile ==
  ViewPortfolioOffered
    => analysisResult.success /\ analysisResult.summary = selectedFile

\* A request is pending: the handler is at await analyzePortfolio(...)
Pending == pc = "analyzePortfolio"

\* C27: a request that starts sets the progress to 1; while it is pending the
\* progress stays at or below 95 and never decreases; the progress becomes
\* 100 only in the step in which the response arrives; once the request has
\* completed the interval is cleared and no tick changes the progress.
C27_ProgressWhilePending ==
  [][ /\ (~Pending /\ Pending' => progress' = Percent(1))
      /\ (Pending' => progress' <= Percent(95))
      /\ (Pending /\ Pending' => progress' >= progress)
      /\ (progress' = Percent(100) /\ progress # Percent(100)
            => Pending /\ pc' = "delay")
      /\ (~Pending' => ~progressInterval'.active)
      /\ (~Pending /\ ProgressTick => progress' = progress) ]_vars

\* The simulated progress has reached its cap while the request is pending
C27_Witness ==
  Pending /\ mounted /\ progressInterval.active /\ progress = Percent(95)

\* C28: the notices modal is visible only while it is mounted.
C28_VisibleImpliesMounted == isNoticesModalVisible => isNoticesModalMounted

====
